---- MODULE Spec2Model ----
(***************************************************************************)
(* State-machine model of the browser client of bidi-adk-live:             *)
(*   - audio-player.js   (src/unnamed/part_000): gapless buffer-source     *)
(*     scheduler, playAudioChunk / stopAudioPlayback;                      *)
(*   - pcm-player-processor.js: ring-buffer playback worklet;              *)
(*   - app.js (later copy, src/app/static/js/audio-recorder.js:420-899):   *)
(*     conversation tracker, socket lifecycle, device toggles.             *)
(* Each component has its own specification over the shared variables.     *)
(***************************************************************************)
EXTENDS Integers, Sequences, FiniteSets, TLC

VARIABLES
    \* ---- audio-player.js (part_000) ----
    clock,              \* audioContext.currentTime, in milliseconds
    nextStartTime,      \* module variable nextStartTime, in milliseconds
    scheduledSources,   \* module variable scheduledSources: sequence of source ids
    sources,            \* every AudioBufferSourceNode created so far (id = index)
    stopCount,          \* number of stopAudioPlayback calls made so far
    lastStopTime,       \* clock value at the latest stopAudioPlayback call (-1: none)
    lastOp,             \* the call that returned last in the scheduler
    \* ---- app.js: conversation display ----
    messages,                    \* children of messagesEl: [role, text]
    currentAgentMessageEl,       \* index into messages, 0 for null
    currentAgentText,
    currentInputTranscription,
    currentOutputTranscription,
    transcriptLines,             \* children of transcriptionContent: [role, text]
    inventoryCount,              \* count shown by inventoryCount, -1 before any update
    lastEvent,                   \* the data handleServerEvent handled last
    textInput,                   \* textInput.value, a sequence of characters
    jsonSent,                    \* JSON messages sent on the socket, oldest first
    \* ---- app.js / pcm-player-processor.js: worklet playback ----
    audioPlayerNode,             \* index into players, 0 for null
    players,                     \* every PCMPlayerProcessor created, with its port
    nextSample,                  \* samples received so far carry the values 1..nextSample-1
    lastOutput,                  \* node and channel0 of the latest process() call
    interruptMark,               \* value of the last sample received before the latest
                                 \* interrupted message
    interruptNode,               \* audioPlayerNode when that message was handled
    \* ---- app.js: socket lifecycle ----
    ws,                          \* index into sockets, 0 for null
    sockets,                     \* every WebSocket created by connect()
    timers,                      \* pending setTimeout(connect, 5000) timers
    wallClock,                   \* the time setTimeout runs on, in milliseconds
    connectionStatus,            \* state shown by the connectionStatus element
    userDisconnected,            \* disconnect() has run
    \* ---- app.js: devices ----
    isMicActive, micStream, audioRecorderNode,
    isCameraActive, cameraStream, cameraInterval,
    isScreenActive, screenStream, screenInterval,
    streams,                     \* every MediaStream acquired: [kind, live, connected]
    intervals,                   \* every setInterval timer created: [kind, running]
    awaitingCamera,              \* startCamera calls waiting in getUserMedia
    awaitingScreen,              \* startScreen calls waiting in getDisplayMedia
    awaitingPlayer,              \* toggleMicrophone calls waiting in initAudioPlayer
    awaitingRecorder,            \* toggleMicrophone calls waiting in startAudioRecorderWorklet
    \* ---- audio-recorder.js / pcm-recorder-processor.js: capture ----
    pcmData,                     \* 16-bit samples given to a playback conversion
    recorderPort,                \* Float32 frames posted to recorderNode.port, oldest first
    float32Data,                 \* the frame recorderNode.port.onmessage handled last
    int16Data,                   \* its conversion by convertFloat32ToPCM
    wsSent,                      \* binary messages sent on the socket, oldest first
    nativeRate,                  \* sample rate of the capture device
    nativeBuffer,                \* the last native-rate frame captured
    lastStep                     \* the handler of the app that ran last

schedVars == <<clock, nextStartTime, scheduledSources, sources, stopCount,
               lastStopTime, lastOp>>

convVars == <<messages, currentAgentMessageEl, currentAgentText,
              currentInputTranscription, currentOutputTranscription,
              transcriptLines, inventoryCount, lastEvent, textInput, jsonSent>>

playVars == <<audioPlayerNode, players, nextSample, lastOutput, interruptMark,
              interruptNode>>

connVars == <<ws, sockets, timers, wallClock, connectionStatus, userDisconnected>>

micVars == <<isMicActive, micStream, audioRecorderNode, awaitingPlayer, awaitingRecorder>>

videoVars == <<isCameraActive, cameraStream, cameraInterval,
               isScreenActive, screenStream, screenInterval,
               awaitingCamera, awaitingScreen, intervals>>

devVars == <<micVars, videoVars, streams>>

capVars == <<pcmData, recorderPort, float32Data, int16Data, wsSent, nativeRate, nativeBuffer>>

appVars == <<convVars, playVars, connVars, devVars, capVars, lastStep>>

vars == <<schedVars, appVars>>

----------------------------------------------------------------------------
(* Bounds of the model *)

MaxChunks == 3          \* buffer sources created in one run
MaxStops == 1           \* stopAudioPlayback calls in one run
MaxMessages == 2        \* children of messagesEl
MaxLines == 1           \* children of transcriptionContent
MaxSamples == 4         \* audio samples received in one run
MaxPort == 2            \* messages waiting in the port of a player
MaxPlayers == 2         \* player worklet nodes created in one run
MaxStreams == 2         \* media streams acquired in one run
MaxSockets == 3         \* sockets created in one run
MaxFrames == 2          \* microphone frames posted and not yet dropped in one run
MaxNative == 5          \* samples of one native-rate frame
MaxImages == 2         \* image messages sent in one run
MaxPending == 2         \* toggleMicrophone calls waiting at an await
QuantumSize == 2        \* channel0.length of process(), scaled down from 128
BufferSize == 3         \* this.bufferSize of the player, scaled down from 24000 * 180

\* The instants (ms) at which the audio clock is observed.
ClockValues == {0, 50, 100, 500}

\* Chunk lengths in samples: 0 (empty), 100 ms and 150 ms at 24 kHz.
ChunkLens == {0, 2400, 3600}

----------------------------------------------------------------------------
(* audio-player.js *)

SampleRate == 24000

Max(a, b) == IF a >= b THEN a ELSE b

\* AudioBuffer.duration of a buffer of len samples at 24 kHz, in milliseconds.
BufferDuration(len) == (len * 1000) \div SampleRate

SeqToSet(s) == {s[i] : i \in 1..Len(s)}

\* Array.prototype.indexOf / splice(idx, 1): drop the first occurrence of x.
RemoveFirst(s, x) ==
    IF \E i \in 1..Len(s) : s[i] = x
    THEN LET idx == CHOOSE i \in 1..Len(s) : s[i] = x /\ \A j \in 1..(i-1) : s[j] # x
         IN  SubSeq(s, 1, idx - 1) \o SubSeq(s, idx + 1, Len(s))
    ELSE s

\* A source has played to its end at the current clock value.
Finished(src) == src.start + src.dur <= clock

SchedInit ==
    /\ clock = 0
    /\ nextStartTime = 0
    /\ scheduledSources = <<>>
    /\ sources = <<>>
    /\ stopCount = 0
    /\ lastStopTime = -1
    /\ lastOp = "init"

\* The audio clock advances.
Tick ==
    /\ \E t \in ClockValues :
          /\ t > clock
          /\ clock' = t
    /\ UNCHANGED <<nextStartTime, scheduledSources, sources, stopCount,
                   lastStopTime, lastOp>>
    /\ UNCHANGED appVars

\* Mutant of PlayAudioChunk: an empty chunk is scheduled like any other, as a
\* source of no duration.
PlayAudioChunkSchedulesEmpty(len) ==
    /\ Len(sources) < MaxChunks
    /\ LET startAt == Max(clock, nextStartTime)
       IN  /\ sources' = Append(sources,
                   [start |-> startAt, dur |-> BufferDuration(len),
                    arrival |-> clock, epoch |-> stopCount,
                    stopped |-> FALSE, ended |-> FALSE])
           /\ nextStartTime' = startAt + BufferDuration(len)
           /\ scheduledSources' = Append(scheduledSources, Len(sources) + 1)
           /\ lastOp' = "play"
    /\ UNCHANGED <<clock, stopCount, lastStopTime>>
    /\ UNCHANGED appVars

\* Mutant of PlayAudioChunk: starts every chunk at the current time.
PlayAudioChunkImmediate(len) ==
    /\ Len(sources) < MaxChunks
    /\ IF len = 0
       THEN /\ lastOp' = "playThrew"
            /\ UNCHANGED <<nextStartTime, scheduledSources, sources>>
       ELSE /\ sources' = Append(sources,
                    [start |-> clock, dur |-> BufferDuration(len),
                     arrival |-> clock, epoch |-> stopCount,
                     stopped |-> FALSE, ended |-> FALSE])
            /\ nextStartTime' = clock + BufferDuration(len)
            /\ scheduledSources' = Append(scheduledSources, Len(sources) + 1)
            /\ lastOp' = "play"
    /\ UNCHANGED <<clock, stopCount, lastStopTime>>
    /\ UNCHANGED appVars

\* Mutant of PlayAudioChunk: schedules at nextStartTime without Math.max(now, .).
PlayAudioChunkNoMax(len) ==
    /\ Len(sources) < MaxChunks
    /\ IF len = 0
       THEN /\ lastOp' = "playThrew"
            /\ UNCHANGED <<nextStartTime, scheduledSources, sources>>
       ELSE /\ sources' = Append(sources,
                    [start |-> nextStartTime, dur |-> BufferDuration(len),
                     arrival |-> clock, epoch |-> stopCount,
                     stopped |-> FALSE, ended |-> FALSE])
            /\ nextStartTime' = nextStartTime + BufferDuration(len)
            /\ scheduledSources' = Append(scheduledSources, Len(sources) + 1)
            /\ lastOp' = "play"
    /\ UNCHANGED <<clock, stopCount, lastStopTime>>
    /\ UNCHANGED appVars

\* playAudioChunk(audioContext, arrayBuffer) with an arrayBuffer of len samples.
\* createBuffer(1, 0, 24000) raises NotSupportedError, so an empty chunk leaves
\* before any module state is touched.
PlayAudioChunk(len) ==
    /\ Len(sources) < MaxChunks
    /\ IF len = 0
       THEN /\ lastOp' = "playThrew"
            /\ UNCHANGED <<nextStartTime, scheduledSources, sources>>
       ELSE LET startAt == Max(clock, nextStartTime)
            IN  /\ sources' = Append(sources,
                        [start |-> startAt, dur |-> BufferDuration(len),
                         arrival |-> clock, epoch |-> stopCount,
                         stopped |-> FALSE, ended |-> FALSE])
                /\ nextStartTime' = startAt + BufferDuration(len)
                /\ scheduledSources' = Append(scheduledSources, Len(sources) + 1)
                /\ lastOp' = "play"
    /\ UNCHANGED <<clock, stopCount, lastStopTime>>
    /\ UNCHANGED appVars

\* Mutant of OnEnded: the handler drops the oldest entry of the list, whichever
\* source it is.
OnEndedShifts(id) ==
    /\ id \in 1..Len(sources)
    /\ ~sources[id].ended
    /\ sources[id].stopped \/ Finished(sources[id])
    /\ sources' = [sources EXCEPT ![id].ended = TRUE]
    /\ scheduledSources' = IF scheduledSources = <<>> THEN <<>>
                           ELSE Tail(scheduledSources)
    /\ lastOp' = "onended"
    /\ UNCHANGED <<clock, nextStartTime, stopCount, lastStopTime>>
    /\ UNCHANGED appVars

\* source.onended: fires once, after the source played to its end or was stopped.
OnEnded(id) ==
    /\ id \in 1..Len(sources)
    /\ ~sources[id].ended
    /\ sources[id].stopped \/ Finished(sources[id])
    /\ sources' = [sources EXCEPT ![id].ended = TRUE]
    /\ scheduledSources' = RemoveFirst(scheduledSources, id)
    /\ lastOp' = "onended"
    /\ UNCHANGED <<clock, nextStartTime, stopCount, lastStopTime>>
    /\ UNCHANGED appVars

\* Mutant of StopAudioPlayback: no try/catch, the first stop() that throws
\* ends the forEach and the function.
StopAudioPlaybackNoCatch(hasContext, throwers) ==
    /\ stopCount < MaxStops
    /\ throwers \subseteq {id \in SeqToSet(scheduledSources) : Finished(sources[id])}
    /\ LET firstThrow ==
               IF \E i \in 1..Len(scheduledSources) : scheduledSources[i] \in throwers
               THEN CHOOSE i \in 1..Len(scheduledSources) :
                        /\ scheduledSources[i] \in throwers
                        /\ \A j \in 1..(i-1) : scheduledSources[j] \notin throwers
               ELSE Len(scheduledSources) + 1
           reached == {scheduledSources[i] : i \in 1..(firstThrow - 1)}
           threw == firstThrow <= Len(scheduledSources)
       IN  /\ sources' = [id \in 1..Len(sources) |->
                            IF id \in reached
                            THEN [sources[id] EXCEPT !.stopped = TRUE]
                            ELSE sources[id]]
           /\ scheduledSources' = IF threw THEN scheduledSources ELSE <<>>
           /\ nextStartTime' = IF hasContext /\ ~threw THEN clock ELSE nextStartTime
    /\ stopCount' = stopCount + 1
    /\ lastStopTime' = clock
    /\ lastOp' = "stop"
    /\ UNCHANGED clock
    /\ UNCHANGED appVars

\* stopAudioPlayback(audioContext).  hasContext: whether the argument was given.
\* throwers: the sources whose stop() raises; only a source that has already
\* played to its end can raise, and the catch swallows it.
StopAudioPlayback(hasContext, throwers) ==
    /\ stopCount < MaxStops
    /\ throwers \subseteq {id \in SeqToSet(scheduledSources) : Finished(sources[id])}
    /\ sources' = [id \in 1..Len(sources) |->
                     IF id \in SeqToSet(scheduledSources) \ throwers
                     THEN [sources[id] EXCEPT !.stopped = TRUE]
                     ELSE sources[id]]
    /\ scheduledSources' = <<>>
    /\ nextStartTime' = IF hasContext THEN clock ELSE nextStartTime
    /\ stopCount' = stopCount + 1
    /\ lastStopTime' = clock
    /\ lastOp' = "stop"
    /\ UNCHANGED clock
    /\ UNCHANGED appVars

SchedNext ==
    \/ Tick
    \/ \E len \in ChunkLens : PlayAudioChunk(len)
    \/ \E id \in 1..MaxChunks : OnEnded(id)
    \/ \E hasContext \in BOOLEAN :
          \E throwers \in SUBSET (1..MaxChunks) : StopAudioPlayback(hasContext, throwers)


----------------------------------------------------------------------------
(* pcm-player-processor.js *)

EmptyBuffer == [i \in 0..(BufferSize - 1) |-> 0]

\* A PCMPlayerProcessor as its constructor leaves it, with an empty port queue.
\* played: the value of the latest sample it has output.
NewPlayer ==
    [buffer |-> EmptyBuffer, writeIndex |-> 0, readIndex |-> 0, port |-> <<>>,
     played |-> 0]

AudioMsg(samples) == [kind |-> "audio", samples |-> samples]
EndOfAudioMsg == [kind |-> "endOfAudio", samples |-> <<>>]

\* Mutant of EnqueueOne: a write that catches up with readIndex does not move it.
EnqueueOneNoDrop(pl, v) ==
    [pl EXCEPT !.buffer[pl.writeIndex] = v,
               !.writeIndex = (pl.writeIndex + 1) % BufferSize]

\* One iteration of the loop of _enqueue.  The buffer holds int16Array[i] / 0x7fff;
\* the model keeps the numerator, the divisor being the same for every sample.
EnqueueOne(pl, v) ==
    LET w == (pl.writeIndex + 1) % BufferSize
    IN  [pl EXCEPT !.buffer[pl.writeIndex] = v,
                   !.writeIndex = w,
                   !.readIndex = IF w = pl.readIndex
                                 THEN (pl.readIndex + 1) % BufferSize
                                 ELSE pl.readIndex]

RECURSIVE Enqueue(_, _)
\* _enqueue(int16Array)
Enqueue(pl, samples) ==
    IF samples = <<>> THEN pl
    ELSE Enqueue(EnqueueOne(pl, Head(samples)), Tail(samples))

RECURSIVE ProcessLoopAlwaysReads(_, _, _)
\* Mutant of ProcessLoop: every output sample is read from the buffer, without
\* the test of readIndex against writeIndex.
ProcessLoopAlwaysReads(pl, out, n) ==
    IF n = 0 THEN [player |-> pl, out |-> out]
    ELSE ProcessLoopAlwaysReads(
             [pl EXCEPT !.readIndex = (pl.readIndex + 1) % BufferSize,
                        !.played = pl.buffer[pl.readIndex]],
             Append(out, pl.buffer[pl.readIndex]), n - 1)

RECURSIVE ProcessLoop(_, _, _)
\* The loop of process() over channel0, n samples still to fill.
ProcessLoop(pl, out, n) ==
    IF n = 0 THEN [player |-> pl, out |-> out]
    ELSE IF pl.readIndex # pl.writeIndex
         THEN ProcessLoop([pl EXCEPT !.readIndex = (pl.readIndex + 1) % BufferSize,
                                     !.played = pl.buffer[pl.readIndex]],
                          Append(out, pl.buffer[pl.readIndex]), n - 1)
         ELSE ProcessLoop(pl, Append(out, 0), n - 1)

\* The samples written and not yet read, oldest first.
Unread(pl) ==
    LET n == (pl.writeIndex - pl.readIndex + BufferSize) % BufferSize
    IN  [i \in 1..n |-> pl.buffer[(pl.readIndex + i - 1) % BufferSize]]

----------------------------------------------------------------------------
(* audio-recorder.js: convertFloat32ToPCM, and the int16 -> float conversions *)
(* of the two playback paths.  A finite float is the pair (m, e), the dyadic  *)
(* rational m / 2^e; every operation stays within 32-bit integers.           *)

Float(m, e) == [nan |-> FALSE, m |-> m, e |-> e]
NaN == [nan |-> TRUE, m |-> 0, e |-> 0]

Int16Max == 32767        \* 0x7fff
Int16Scale == 32768      \* 0x8000
Mantissa == 8388608      \* 2^23: a Float32 has 24 significant bits

\* x >= 1 and x <= -1 on finite floats.  A float with e > 23 comes
\* from ToFloat32 and has |m| < 2^24, so it lies strictly between -2 and 2.
AtLeastOne(x) == ~x.nan /\ x.m > 0 /\ x.e <= 24 /\ x.m >= 2^x.e
AtMostMinusOne(x) == ~x.nan /\ x.m < 0 /\ x.e <= 24 /\ -x.m >= 2^x.e

\* Mutant of Clamp: no clamping.
ClampNone(x) == x

\* Math.max(-1, Math.min(1, x)); NaN stays NaN.
Clamp(x) ==
    IF x.nan THEN x
    ELSE IF AtLeastOne(x) THEN Float(1, 0)
    ELSE IF AtMostMinusOne(x) THEN Float(-1, 0)
    ELSE x

\* The integer part of s * 0x7fff for s >= 0.  For a mantissa too wide for the
\* product, s * 0x7fff = s * 2^15 - s is taken in two parts (there s <= 1).
TimesInt16Max(x) ==
    IF x.m < 65536
    THEN (x.m * Int16Max) \div 2^x.e
    ELSE LET a == x.e - 15
             whole == x.m \div 2^a
             frac == x.m % 2^a
             sub == (x.m + Int16Scale - 1) \div Int16Scale
         IN  IF frac >= sub THEN whole ELSE whole - 1

\* The integer part of s * 0x8000 for s < 0: the product is truncated toward zero.
TimesInt16Scale(x) ==
    IF x.e >= 15 THEN -((-x.m) \div 2^(x.e - 15))
    ELSE -((-x.m) * 2^(15 - x.e))

\* Storing a number into an Int16Array: its integer part modulo 2^16, as a
\* signed value.
ToInt16(t) == ((t + 32768) % 65536) - 32768

\* One iteration of convertFloat32ToPCM: clamp, scale by sign, store.  NaN is
\* not < 0, NaN * 0x7fff is NaN, and NaN is stored as 0.
ConvertSample(x) ==
    LET s == Clamp(x)
    IN  IF s.nan THEN 0
        ELSE IF s.m < 0 THEN ToInt16(TimesInt16Scale(s))
        ELSE ToInt16(TimesInt16Max(s))

\* convertFloat32ToPCM(float32Array)
ConvertFloat32ToPCM(frame) == [i \in 1..Len(frame) |-> ConvertSample(frame[i])]

\* q / 32768.0 stored in a Float32Array, as playAudioChunk does: exact.
\* q / 0x7fff stored in a Float32Array, as _enqueue does: the quotient rounded
\* to 24 significant bits.  With n = |q| * 2^k in [32767, 65534), the mantissa is
\* n * 2^23 / 32767 = 2^23 + r * 2^8 + r * 2^8 / 32767 for r = n - 32767.
ToFloat32(q, divisor) ==
    IF divisor = Int16Scale THEN Float(q, 15)
    ELSE IF q = 0 THEN Float(0, 0)
    ELSE LET a == IF q < 0 THEN -q ELSE q
             k == CHOOSE j \in 0..15 :
                      /\ a * 2^j >= Int16Max
                      /\ \A i \in 0..(j - 1) : a * 2^i < Int16Max
             x == (a * 2^k - Int16Max) * 256
             m == Mantissa + x + (x \div Int16Max)
                  + (IF 2 * (x % Int16Max) > Int16Max THEN 1 ELSE 0)
         IN  Float(IF q < 0 THEN -m ELSE m, 23 + k)

----------------------------------------------------------------------------
(* Capture adapter: conversion of a native-rate frame to the transmit rate.   *)
(* The audio-recorder.js that does it is the one the project notes describe   *)
(* (shared AudioContext, "downsamples native->16kHz"); the algorithm below is *)
(* that of the design, section 4.1.                                           *)

TargetRate == 16000

\* Math.round of the non-negative quotient a / b.
RoundDiv(a, b) == (2 * a + b) \div (2 * b)

RECURSIVE SumMantissa(_)
SumMantissa(w) == IF w = <<>> THEN 0 ELSE Head(w).m + SumMantissa(Tail(w))

\* The average of a window of samples that share one exponent.  The frames
\* captured below are made of samples whose sums over 1, 2 or 3 samples divide
\* exactly.
Mean(w) == Float(SumMantissa(w) \div Len(w), w[1].e)

\* Mutant of Downsample: the frame is passed through at every rate.
DownsamplePassThrough(buffer, rate, target) == buffer

\* Pass through at the target rate; otherwise output sample i is the average of
\* the native samples from the rounded boundary of i to that of i + 1, cut at the
\* end of the buffer.
Downsample(buffer, rate, target) ==
    IF rate = target THEN buffer
    ELSE LET n == RoundDiv(Len(buffer) * target, rate)
             Start(i) == RoundDiv((i - 1) * rate, target) + 1
             End(i) == IF RoundDiv(i * rate, target) < Len(buffer)
                       THEN RoundDiv(i * rate, target) ELSE Len(buffer)
         IN  [i \in 1..n |-> Mean(SubSeq(buffer, Start(i), End(i)))]

\* The capture state before any frame, but for the device's rate.
NoFrames ==
    /\ pcmData = <<>>
    /\ recorderPort = <<>>
    /\ float32Data = <<>>
    /\ int16Data = <<>>
    /\ wsSent = <<>>
    /\ nativeBuffer = <<>>

CapInit == NoFrames /\ nativeRate = TargetRate

----------------------------------------------------------------------------
(* app.js: message display, transcription and server events *)

NoTranscription == [present |-> FALSE, text |-> "", finished |-> FALSE]

\* Data for which JSON.parse throws, and the value of lastEvent before any message.
BlankData(kind) ==
    [kind |-> kind, parts |-> <<>>, partial |-> FALSE, turn_complete |-> FALSE,
     interrupted |-> FALSE, input_transcription |-> NoTranscription,
     output_transcription |-> NoTranscription]
Malformed == BlankData("malformed")

\* Text that parses to JSON null: hasAudioData reads event.content of null, which
\* raises a TypeError.
JsonNull == BlankData("null")

\* Text that parses to a number, a string, a boolean or an array: every field the
\* handler reads is undefined.
JsonScalar == BlankData("scalar")

\* Inbound texts that are not JSON objects.
NonObjects == {Malformed, JsonNull, JsonScalar}

\* JavaScript truthiness of a string.
Truthy(text) == text # ""

\* The state handleServerEvent reads and writes, as one record.
CurrentState ==
    [messages |-> messages, el |-> currentAgentMessageEl, agentText |-> currentAgentText,
     inTr |-> currentInputTranscription, outTr |-> currentOutputTranscription,
     lines |-> transcriptLines, inventory |-> inventoryCount,
     players |-> players, nextSample |-> nextSample]

\* addMessage(role, text); the element returned is the last child.
AddMessage(st, role, text) ==
    [st EXCEPT !.messages = Append(st.messages, [role |-> role, text |-> text])]

\* Mutant of UpdateAgentMessage: appends the delta to the text shown.
UpdateAgentMessageAppend(st, text) ==
    LET s1 == IF st.el = 0
              THEN [AddMessage(st, "agent", "") EXCEPT !.el = Len(st.messages) + 1]
              ELSE st
    IN  [s1 EXCEPT !.agentText = s1.agentText \o text,
                   !.messages[s1.el].text = s1.agentText \o text]

\* Mutant of UpdateAgentMessage: a new element is created for every update.
UpdateAgentMessageAlwaysNew(st, text) ==
    LET s1 == [AddMessage(st, "agent", "") EXCEPT !.el = Len(st.messages) + 1]
    IN  [s1 EXCEPT !.agentText = text,
                   !.messages[s1.el].text = text]

\* updateAgentMessage(text, isPartial); isPartial is not read.
UpdateAgentMessage(st, text) ==
    LET s1 == IF st.el = 0
              THEN [AddMessage(st, "agent", "") EXCEPT !.el = Len(st.messages) + 1]
              ELSE st
    IN  [s1 EXCEPT !.agentText = text,
                   !.messages[s1.el].text = text]

\* finalizeAgentMessage()
FinalizeAgentMessage(st) == [st EXCEPT !.el = 0, !.agentText = ""]

\* Mutant of UpdateTranscription: a finished transcription clears both accumulators.
UpdateTranscriptionClearsBoth(st, role, text, finished) ==
    LET s1 == IF role = "user" THEN [st EXCEPT !.inTr = text]
                               ELSE [st EXCEPT !.outTr = text]
    IN  IF finished
        THEN [s1 EXCEPT !.lines = Append(s1.lines, [role |-> role, text |-> text]),
                        !.inTr = "", !.outTr = ""]
        ELSE s1

\* updateTranscription(role, text, finished)
UpdateTranscription(st, role, text, finished) ==
    LET s1 == IF role = "user" THEN [st EXCEPT !.inTr = text]
                               ELSE [st EXCEPT !.outTr = text]
    IN  IF finished
        THEN LET s2 == [s1 EXCEPT !.lines = Append(s1.lines, [role |-> role, text |-> text])]
             IN  IF role = "user" THEN [s2 EXCEPT !.inTr = ""]
                                  ELSE [s2 EXCEPT !.outTr = ""]
        ELSE s1

\* port.postMessage(msg) on the node audioPlayerNode refers to.
PostToPlayer(st, msg) ==
    [st EXCEPT !.players[audioPlayerNode].port = Append(@, msg)]

\* playAudio(base64Data) for data that decodes to n samples.  The samples of the
\* stream are numbered in arrival order, so that each can be told from the others.
PlayAudio(st, n) ==
    LET samples == [i \in 1..n |-> st.nextSample + i - 1]
        s1 == [st EXCEPT !.nextSample = st.nextSample + n]
    IN  IF audioPlayerNode = 0 THEN s1
        ELSE PostToPlayer(s1, AudioMsg(samples))

RECURSIVE PartsLoop(_, _)
\* First loop over event.content.parts: inline audio, then text, of each part.
PartsLoop(st, parts) ==
    IF parts = <<>> THEN st
    ELSE LET part == Head(parts)
             s1 == IF part.audio >= 0 THEN PlayAudio(st, part.audio) ELSE st
             s2 == IF Truthy(part.text) THEN UpdateAgentMessage(s1, part.text) ELSE s1
         IN  PartsLoop(s2, Tail(parts))

RECURSIVE InventoryLoop(_, _)
\* Second loop over event.content.parts: function_response.response.total_appliances.
InventoryLoop(st, parts) ==
    IF parts = <<>> THEN st
    ELSE LET part == Head(parts)
             s1 == IF part.total >= 0 THEN [st EXCEPT !.inventory = part.total] ELSE st
         IN  InventoryLoop(s1, Tail(parts))

\* Mutant of AfterEvent: the interrupted branch does not post endOfAudio.
AfterEventNoFlush(st, ev) ==
    LET s1 == PartsLoop(st, ev.parts)
        s2 == IF ev.turn_complete THEN FinalizeAgentMessage(s1) ELSE s1
        s3 == IF ev.interrupted THEN FinalizeAgentMessage(s2) ELSE s2
        s4 == IF ev.input_transcription.present /\ Truthy(ev.input_transcription.text)
              THEN UpdateTranscription(s3, "user", ev.input_transcription.text,
                                       ev.input_transcription.finished)
              ELSE s3
        s5 == IF ev.output_transcription.present /\ Truthy(ev.output_transcription.text)
              THEN UpdateAgentMessage(
                       UpdateTranscription(s4, "agent", ev.output_transcription.text,
                                           ev.output_transcription.finished),
                       ev.output_transcription.text)
              ELSE s4
    IN  InventoryLoop(s5, ev.parts)

\* The body of handleServerEvent after JSON.parse gave the object ev.
AfterEvent(st, ev) ==
    LET s1 == PartsLoop(st, ev.parts)
        s2 == IF ev.turn_complete THEN FinalizeAgentMessage(s1) ELSE s1
        s3 == IF ev.interrupted
              THEN FinalizeAgentMessage(
                       IF audioPlayerNode # 0 THEN PostToPlayer(s2, EndOfAudioMsg) ELSE s2)
              ELSE s2
        s4 == IF ev.input_transcription.present /\ Truthy(ev.input_transcription.text)
              THEN UpdateTranscription(s3, "user", ev.input_transcription.text,
                                       ev.input_transcription.finished)
              ELSE s3
        s5 == IF ev.output_transcription.present /\ Truthy(ev.output_transcription.text)
              THEN UpdateAgentMessage(
                       UpdateTranscription(s4, "agent", ev.output_transcription.text,
                                           ev.output_transcription.finished),
                       ev.output_transcription.text)
              ELSE s4
    IN  InventoryLoop(s5, ev.parts)

\* Number of samples the inline audio of ev carries.
RECURSIVE AudioSamples(_)
AudioSamples(parts) ==
    IF parts = <<>> THEN 0
    ELSE (IF Head(parts).audio >= 0 THEN Head(parts).audio ELSE 0) + AudioSamples(Tail(parts))

----------------------------------------------------------------------------
(* app.js: socket lifecycle *)

ReconnectDelay == 5000

\* A WebSocket as connect() leaves it.  origin: the socket whose close handler set
\* the timer that made this call of connect(), 0 for the call at load.
NewSocket(origin) ==
    [readyState |-> "CONNECTING", onclose |-> TRUE, closeHandled |-> FALSE,
     closedAt |-> -1, reconnects |-> 0, origin |-> origin, createdAt |-> wallClock,
     afterDisconnect |-> userDisconnected]

\* State after the module has loaded: every variable at its initialiser and the
\* connect() of the last line done.
ConnInit ==
    /\ wallClock = 0
    /\ userDisconnected = FALSE
    /\ sockets = <<NewSocket(0)>>
    /\ ws = 1
    /\ timers = <<>>
    /\ connectionStatus = "initial"

\* The same with the first socket open (ws.onopen has run).
ConnOpened ==
    /\ wallClock = 0
    /\ userDisconnected = FALSE
    /\ sockets = <<[NewSocket(0) EXCEPT !.readyState = "OPEN"]>>
    /\ ws = 1
    /\ timers = <<>>
    /\ connectionStatus = "connected"

DevInit ==
    /\ isMicActive = FALSE /\ micStream = 0 /\ audioRecorderNode = 0
    /\ isCameraActive = FALSE /\ cameraStream = 0 /\ cameraInterval = FALSE
    /\ isScreenActive = FALSE /\ screenStream = 0 /\ screenInterval = FALSE
    /\ intervals = <<>>
    /\ streams = <<>>
    /\ awaitingPlayer = 0 /\ awaitingRecorder = 0
    /\ awaitingCamera = 0 /\ awaitingScreen = 0

\* Some socket is open: only an open socket delivers messages to ws.onmessage.
SomeSocketOpen == \E i \in 1..Len(sockets) : sockets[i].readyState = "OPEN"

\* The current socket is there and open: ws && ws.readyState === WebSocket.OPEN.
WsOpen == ws # 0 /\ sockets[ws].readyState = "OPEN"

\* A MediaStream as getUserMedia / getDisplayMedia hands it over.  connected:
\* whether the current socket was open at that moment.
NewStream(kind) == [kind |-> kind, live |-> TRUE, connected |-> WsOpen]

\* The timer a capture interval variable holds when it is not null: the one the
\* latest setInterval of that kind returned.
HeldInterval(ivs, kind) ==
    CHOOSE i \in 1..Len(ivs) :
        ivs[i].kind = kind /\ \A j \in (i + 1)..Len(ivs) : ivs[j].kind # kind

\* if (interval) { clearInterval(interval); } for the interval variable of kind.
ClearInterval(ivs, kind, held) ==
    IF held THEN [ivs EXCEPT ![HeldInterval(ivs, kind)].running = FALSE] ELSE ivs

\* setInterval(captureAndSendFrame / captureAndSendScreenFrame, 1000 / CAMERA_FPS)
SetInterval(ivs, kind) == Append(ivs, [kind |-> kind, running |-> TRUE])

\* Mutant of StopTracks: the tracks are switched, stopped ones come back.
StopTracksToggles(strs, i) == IF i = 0 THEN strs ELSE [strs EXCEPT ![i].live = ~@]

\* stream.getTracks().forEach((track) => track.stop()) on stream i, if any.
StopTracks(strs, i) == IF i = 0 THEN strs ELSE [strs EXCEPT ![i].live = FALSE]

ConvInit ==
    /\ messages = <<>>
    /\ currentAgentMessageEl = 0
    /\ currentAgentText = ""
    /\ currentInputTranscription = ""
    /\ currentOutputTranscription = ""
    /\ transcriptLines = <<>>
    /\ inventoryCount = -1
    /\ lastEvent = BlankData("none")
    /\ textInput = <<>>
    /\ jsonSent = <<>>

PlayInit ==
    /\ audioPlayerNode = 0
    /\ players = <<>>
    /\ nextSample = 1
    /\ lastOutput = [node |-> 0, out |-> <<>>]
    /\ interruptMark = 0
    /\ interruptNode = 0

\* ws.onmessage -> handleServerEvent(data).  data is Malformed when JSON.parse
\* throws (the handler returns), JsonNull when the handler raises in
\* hasAudioData, and the parsed value otherwise.
HandleServerEvent(data) ==
    /\ SomeSocketOpen
    /\ IF data.kind # "object"
       THEN UNCHANGED <<messages, currentAgentMessageEl, currentAgentText,
                        currentInputTranscription, currentOutputTranscription,
                        transcriptLines, inventoryCount, players, nextSample,
                        interruptMark, interruptNode>>
       ELSE LET st == AfterEvent(CurrentState, data)
            IN  /\ messages' = st.messages
                /\ currentAgentMessageEl' = st.el
                /\ currentAgentText' = st.agentText
                /\ currentInputTranscription' = st.inTr
                /\ currentOutputTranscription' = st.outTr
                /\ transcriptLines' = st.lines
                /\ inventoryCount' = st.inventory
                /\ players' = st.players
                /\ nextSample' = st.nextSample
                /\ interruptMark' = IF data.interrupted THEN st.nextSample - 1
                                    ELSE interruptMark
                /\ interruptNode' = IF data.interrupted THEN audioPlayerNode
                                    ELSE interruptNode
    /\ lastEvent' = data
    /\ lastStep' = IF data.kind = "null" THEN "eventRaised" ELSE "event"
    /\ UNCHANGED <<audioPlayerNode, lastOutput, textInput, jsonSent>>
    /\ UNCHANGED <<connVars, devVars, schedVars, capVars>>

\* The texts of text parts and of transcriptions.
Texts == {"Hello", "Hello there"}
TranscriptTexts == {"hi"}

TextPart(t) == [text |-> t, audio |-> -1, total |-> -1]
ToolPart(n) == [text |-> "", audio |-> -1, total |-> n]
AudioPart(n) == [text |-> "", audio |-> n, total |-> -1]

Transcription(t, f) == [present |-> TRUE, text |-> t, finished |-> f]

Transcriptions ==
    {NoTranscription} \cup {Transcription(t, f) : t \in TranscriptTexts, f \in BOOLEAN}

Event(parts, partial, tc, int, inTr, outTr) ==
    [kind |-> "object", parts |-> parts, partial |-> partial, turn_complete |-> tc,
     interrupted |-> int, input_transcription |-> inTr, output_transcription |-> outTr]

\* Every combination of a text part, the two turn boundaries and the two
\* transcriptions.
CoreEvents ==
    {Event(parts, FALSE, tc, int, inTr, outTr) :
        parts \in {<<>>} \cup {<<TextPart(t)>> : t \in Texts},
        tc \in BOOLEAN, int \in BOOLEAN,
        inTr \in Transcriptions, outTr \in Transcriptions}

\* Messages whose fields the handler skips or reads in a second loop: text deltas
\* flagged partial, several parts, an empty text, empty transcriptions, a tool result.
EdgeEvents ==
    {Event(<<TextPart(t)>>, TRUE, FALSE, FALSE, NoTranscription, NoTranscription) :
        t \in Texts}
    \cup {Event(<<TextPart("Hello"), TextPart("Hello there")>>, TRUE, tc, FALSE,
                NoTranscription, NoTranscription) : tc \in BOOLEAN}
    \cup {Event(<<TextPart("")>>, p, FALSE, FALSE, NoTranscription, NoTranscription) :
             p \in BOOLEAN}
    \cup {Event(<<>>, FALSE, FALSE, FALSE, Transcription("", TRUE), NoTranscription),
          Event(<<>>, FALSE, FALSE, FALSE, NoTranscription, Transcription("", TRUE)),
          Event(<<ToolPart(2)>>, FALSE, FALSE, FALSE, NoTranscription, NoTranscription),
          Event(<<TextPart("Hello"), ToolPart(2)>>, FALSE, TRUE, FALSE,
                NoTranscription, NoTranscription)}

TextEvents == CoreEvents \cup EdgeEvents

\* The lists shown have room for what the message adds to them.
Fits(data) ==
    \/ data.kind # "object"
    \/ LET st == AfterEvent(CurrentState, data)
       IN  /\ Len(st.messages) <= MaxMessages
           /\ Len(st.lines) <= MaxLines
           /\ st.nextSample - 1 <= MaxSamples

\* An inbound text message without audio arrives.
ReceiveText ==
    \E data \in TextEvents \cup NonObjects : Fits(data) /\ HandleServerEvent(data)

ConvNext == ReceiveText

\* Inbound messages that carry inline audio, alone or with a text part, and the
\* turn boundaries.
AudioEvents ==
    {Event(parts, FALSE, tc, int, NoTranscription, NoTranscription) :
        parts \in {<<>>, <<AudioPart(1)>>, <<AudioPart(2)>>,
                   <<AudioPart(1), TextPart("Hello")>>},
        tc \in BOOLEAN, int \in BOOLEAN}

\* An inbound text message with inline audio arrives.
ReceiveAudio ==
    \E data \in AudioEvents :
        /\ Fits(data)
        /\ \A p \in 1..Len(players) :
              Len(AfterEvent(CurrentState, data).players[p].port) <= MaxPort
        /\ HandleServerEvent(data)

\* A binary frame of n PCM samples, as ws.onmessage gets it (an ArrayBuffer).
\* JSON.parse turns it into the string "[object ArrayBuffer]" and throws.
BinaryData(n) == [BlankData("binary") EXCEPT !.parts = <<AudioPart(n)>>]

\* An inbound binary message arrives: ws.onmessage passes event.data to
\* handleServerEvent whatever its type.
ReceiveBinary ==
    \E n \in 1..2 :
        /\ SomeSocketOpen
        /\ HandleServerEvent(BinaryData(n))

\* Mutant of PlayerOnMessage: endOfAudio zeroes the buffer and leaves the indices.
PlayerOnMessageKeepsIndices(p) ==
    /\ p \in 1..Len(players)
    /\ players[p].port # <<>>
    /\ LET msg == Head(players[p].port)
           pl == [players[p] EXCEPT !.port = Tail(players[p].port)]
       IN  IF msg.kind = "endOfAudio"
           THEN /\ players' = [players EXCEPT ![p] = [pl EXCEPT !.buffer = EmptyBuffer]]
                /\ lastStep' = "endOfAudio"
           ELSE /\ players' = [players EXCEPT ![p] = Enqueue(pl, msg.samples)]
                /\ lastStep' = "enqueue"
    /\ lastOutput' = [node |-> p, out |-> <<>>]
    /\ UNCHANGED <<audioPlayerNode, nextSample, interruptMark, interruptNode>>
    /\ UNCHANGED <<convVars, connVars, devVars, schedVars, capVars>>

\* Mutant of PlayerOnMessage: the newest message posted is taken first.
PlayerOnMessageNewest(p) ==
    /\ p \in 1..Len(players)
    /\ players[p].port # <<>>
    /\ LET port == players[p].port
           msg == port[Len(port)]
           pl == [players[p] EXCEPT !.port = SubSeq(port, 1, Len(port) - 1)]
       IN  IF msg.kind = "endOfAudio"
           THEN /\ players' = [players EXCEPT ![p] =
                       [pl EXCEPT !.buffer = EmptyBuffer, !.writeIndex = 0,
                                  !.readIndex = 0]]
                /\ lastStep' = "endOfAudio"
           ELSE /\ players' = [players EXCEPT ![p] = Enqueue(pl, msg.samples)]
                /\ lastStep' = "enqueue"
    /\ lastOutput' = [node |-> p, out |-> <<>>]
    /\ UNCHANGED <<audioPlayerNode, nextSample, interruptMark, interruptNode>>
    /\ UNCHANGED <<convVars, connVars, devVars, schedVars, capVars>>

\* port.onmessage of player p takes the oldest message posted to it.
PlayerOnMessage(p) ==
    /\ p \in 1..Len(players)
    /\ players[p].port # <<>>
    /\ LET msg == Head(players[p].port)
           pl == [players[p] EXCEPT !.port = Tail(players[p].port)]
       IN  IF msg.kind = "endOfAudio"
           THEN /\ players' = [players EXCEPT ![p] =
                       [pl EXCEPT !.buffer = EmptyBuffer, !.writeIndex = 0,
                                  !.readIndex = 0]]
                /\ lastStep' = "endOfAudio"
           ELSE /\ players' = [players EXCEPT ![p] = Enqueue(pl, msg.samples)]
                /\ lastStep' = "enqueue"
    /\ lastOutput' = [node |-> p, out |-> <<>>]
    /\ UNCHANGED <<audioPlayerNode, nextSample, interruptMark, interruptNode>>
    /\ UNCHANGED <<convVars, connVars, devVars, schedVars, capVars>>

\* The audio thread calls process() of player p for one render quantum.
PlayerProcess(p) ==
    /\ p \in 1..Len(players)
    /\ LET res == ProcessLoop(players[p], <<>>, QuantumSize)
       IN  /\ players' = [players EXCEPT ![p] = res.player]
           /\ lastOutput' = [node |-> p, out |-> res.out]
    /\ lastStep' = "process"
    /\ UNCHANGED <<audioPlayerNode, nextSample, interruptMark, interruptNode>>
    /\ UNCHANGED <<convVars, connVars, devVars, schedVars, capVars>>

\* Click on micBtn: toggleMicrophone() up to its first await, or to its end when
\* the microphone is active.  initAudioPlayer() tests audioPlayerNode before it
\* awaits; with a player present the call goes on to startAudioRecorderWorklet.
ToggleMicrophone ==
    /\ IF isMicActive
       THEN /\ streams' = StopTracks(streams, micStream)
            /\ micStream' = 0
            /\ isMicActive' = FALSE
            /\ UNCHANGED <<awaitingPlayer, awaitingRecorder>>
       ELSE /\ awaitingPlayer + awaitingRecorder < MaxPending
            /\ IF audioPlayerNode = 0
               THEN awaitingPlayer' = awaitingPlayer + 1 /\ UNCHANGED awaitingRecorder
               ELSE awaitingRecorder' = awaitingRecorder + 1 /\ UNCHANGED awaitingPlayer
            /\ UNCHANGED <<streams, micStream, isMicActive>>
    /\ lastStep' = "toggleMicrophone"
    /\ UNCHANGED <<audioRecorderNode, videoVars>>
    /\ UNCHANGED <<convVars, playVars, connVars, schedVars, capVars>>

\* startAudioPlayerWorklet() resolves inside initAudioPlayer(): the new node is
\* assigned, and toggleMicrophone goes on to startAudioRecorderWorklet.
PlayerWorkletResolves ==
    /\ awaitingPlayer > 0
    /\ Len(players) < MaxPlayers
    /\ players' = Append(players, NewPlayer)
    /\ audioPlayerNode' = Len(players) + 1
    /\ awaitingPlayer' = awaitingPlayer - 1
    /\ awaitingRecorder' = awaitingRecorder + 1
    /\ lastStep' = "playerResolved"
    /\ UNCHANGED <<nextSample, lastOutput, interruptMark, interruptNode>>
    /\ UNCHANGED <<isMicActive, micStream, audioRecorderNode, videoVars, streams>>
    /\ UNCHANGED <<convVars, connVars, schedVars, capVars>>

\* startAudioPlayerWorklet() rejects (addModule fails): toggleMicrophone ends there.
PlayerWorkletRejects ==
    /\ awaitingPlayer > 0
    /\ awaitingPlayer' = awaitingPlayer - 1
    /\ lastStep' = "playerRejected"
    /\ UNCHANGED <<isMicActive, micStream, audioRecorderNode, awaitingRecorder,
                   videoVars, streams>>
    /\ UNCHANGED <<convVars, playVars, connVars, schedVars, capVars>>

\* startAudioRecorderWorklet() resolves: getUserMedia gave a stream, and the rest
\* of toggleMicrophone runs.
RecorderResolves ==
    /\ awaitingRecorder > 0
    /\ Len(streams) < MaxStreams
    /\ streams' = Append(streams, NewStream("mic"))
    /\ micStream' = Len(streams) + 1
    /\ audioRecorderNode' = Len(streams) + 1
    /\ isMicActive' = TRUE
    /\ awaitingRecorder' = awaitingRecorder - 1
    /\ lastStep' = "recorderResolved"
    /\ UNCHANGED <<awaitingPlayer, videoVars>>
    /\ UNCHANGED <<convVars, playVars, connVars, schedVars, capVars>>

\* startAudioRecorderWorklet() rejects and toggleMicrophone ends there, nothing
\* catching the rejection.  The rejection comes from addModule or getUserMedia,
\* before there is a stream, or from createMediaStreamSource or the
\* AudioWorkletNode constructor, after getUserMedia gave one (acquired): that
\* stream is live and nothing refers to it.
RecorderRejects(acquired) ==
    /\ awaitingRecorder > 0
    /\ awaitingRecorder' = awaitingRecorder - 1
    /\ IF acquired
       THEN /\ Len(streams) < MaxStreams
            /\ streams' = Append(streams, NewStream("mic"))
       ELSE UNCHANGED streams
    /\ lastStep' = "recorderRejected"
    /\ UNCHANGED <<isMicActive, micStream, audioRecorderNode, awaitingPlayer,
                   videoVars>>
    /\ UNCHANGED <<convVars, playVars, connVars, schedVars, capVars>>

PlayNext ==
    \/ ReceiveAudio
    \/ ReceiveBinary
    \/ \E p \in 1..MaxPlayers : PlayerOnMessage(p)
    \/ \E p \in 1..MaxPlayers : PlayerProcess(p)

\* The instants (ms) at which the timer clock is observed.
WallTimes == {0, 2500, 5000, 7500, 10000}

\* Time passes.
WallTick ==
    /\ \E t \in WallTimes :
          /\ t > wallClock
          /\ wallClock' = t
    /\ UNCHANGED <<ws, sockets, timers, connectionStatus, userDisconnected, lastStep>>
    /\ UNCHANGED <<convVars, playVars, devVars, schedVars, capVars>>

\* The browser opens socket i: ws.onopen.
SocketOpens(i) ==
    /\ i \in 1..Len(sockets)
    /\ sockets[i].readyState = "CONNECTING"
    /\ sockets' = [sockets EXCEPT ![i].readyState = "OPEN"]
    /\ connectionStatus' = "connected"
    /\ lastStep' = "onopen"
    /\ UNCHANGED <<ws, timers, wallClock, userDisconnected>>
    /\ UNCHANGED <<convVars, playVars, devVars, schedVars, capVars>>

\* Mutant of SocketCloses: ws.onclose sets the status and no timer.
SocketClosesNoTimer(i, withError) ==
    /\ i \in 1..Len(sockets)
    /\ sockets[i].readyState # "CLOSED"
    /\ sockets' = [sockets EXCEPT ![i].readyState = "CLOSED",
                                  ![i].closedAt = wallClock,
                                  ![i].closeHandled = sockets[i].onclose]
    /\ connectionStatus' = IF sockets[i].onclose THEN "disconnected"
                           ELSE IF withError THEN "error" ELSE connectionStatus
    /\ lastStep' = "onclose"
    /\ UNCHANGED <<ws, timers, wallClock, userDisconnected>>
    /\ UNCHANGED <<convVars, playVars, devVars, schedVars, capVars>>

\* Mutant of SocketCloses: ws.onerror schedules a reconnect as well.
SocketClosesErrorReconnects(i, withError) ==
    /\ i \in 1..Len(sockets)
    /\ sockets[i].readyState # "CLOSED"
    /\ LET n == (IF withError THEN 1 ELSE 0) + (IF sockets[i].onclose THEN 1 ELSE 0)
           timer == [due |-> wallClock + ReconnectDelay, origin |-> i]
       IN  /\ sockets' = [sockets EXCEPT ![i].readyState = "CLOSED",
                                          ![i].closedAt = wallClock,
                                          ![i].closeHandled = sockets[i].onclose,
                                          ![i].reconnects = @ + n]
           /\ timers' = timers \o [k \in 1..n |-> timer]
    /\ connectionStatus' = IF sockets[i].onclose THEN "disconnected"
                           ELSE IF withError THEN "error" ELSE connectionStatus
    /\ lastStep' = "onclose"
    /\ UNCHANGED <<ws, wallClock, userDisconnected>>
    /\ UNCHANGED <<convVars, playVars, devVars, schedVars, capVars>>

\* The connection of socket i ends: the browser fires error first when the
\* connection failed (ws.onerror), then close (ws.onclose, unless disconnect()
\* removed the handler).
SocketCloses(i, withError) ==
    /\ i \in 1..Len(sockets)
    /\ sockets[i].readyState # "CLOSED"
    /\ IF sockets[i].onclose
       THEN /\ sockets' = [sockets EXCEPT ![i].readyState = "CLOSED",
                                           ![i].closedAt = wallClock,
                                           ![i].closeHandled = TRUE,
                                           ![i].reconnects = @ + 1]
            /\ timers' = Append(timers, [due |-> wallClock + ReconnectDelay,
                                         origin |-> i])
            /\ connectionStatus' = "disconnected"
       ELSE /\ sockets' = [sockets EXCEPT ![i].readyState = "CLOSED",
                                           ![i].closedAt = wallClock]
            /\ connectionStatus' = IF withError THEN "error" ELSE connectionStatus
            /\ UNCHANGED timers
    /\ lastStep' = "onclose"
    /\ UNCHANGED <<ws, wallClock, userDisconnected>>
    /\ UNCHANGED <<convVars, playVars, devVars, schedVars, capVars>>

\* Mutant of TimerFires: the timer is a repeating one and stays pending.
TimerFiresRepeats(k) ==
    /\ k \in 1..Len(timers)
    /\ wallClock >= timers[k].due
    /\ Len(sockets) < MaxSockets
    /\ sockets' = Append(sockets, NewSocket(timers[k].origin))
    /\ ws' = Len(sockets) + 1
    /\ lastStep' = "connect"
    /\ UNCHANGED <<timers, wallClock, connectionStatus, userDisconnected>>
    /\ UNCHANGED <<convVars, playVars, devVars, schedVars, capVars>>

\* Pending timer k runs out: connect().
TimerFires(k) ==
    /\ k \in 1..Len(timers)
    /\ wallClock >= timers[k].due
    /\ Len(sockets) < MaxSockets
    /\ sockets' = Append(sockets, NewSocket(timers[k].origin))
    /\ ws' = Len(sockets) + 1
    /\ timers' = SubSeq(timers, 1, k - 1) \o SubSeq(timers, k + 1, Len(timers))
    /\ lastStep' = "connect"
    /\ UNCHANGED <<wallClock, connectionStatus, userDisconnected>>
    /\ UNCHANGED <<convVars, playVars, devVars, schedVars, capVars>>

\* Mutant of Disconnect: without the updateConnectionStatus of line 523.
DisconnectKeepsStatus ==
    /\ streams' =
          LET s1 == IF isMicActive THEN StopTracks(streams, micStream) ELSE streams
              s2 == IF isCameraActive THEN StopTracks(s1, cameraStream) ELSE s1
          IN  IF isScreenActive THEN StopTracks(s2, screenStream) ELSE s2
    /\ micStream' = IF isMicActive THEN 0 ELSE micStream
    /\ isMicActive' = FALSE
    /\ cameraInterval' = IF isCameraActive THEN FALSE ELSE cameraInterval
    /\ cameraStream' = IF isCameraActive THEN 0 ELSE cameraStream
    /\ isCameraActive' = FALSE
    /\ screenInterval' = IF isScreenActive THEN FALSE ELSE screenInterval
    /\ screenStream' = IF isScreenActive THEN 0 ELSE screenStream
    /\ isScreenActive' = FALSE
    /\ intervals' =
          LET i1 == IF isCameraActive
                    THEN ClearInterval(intervals, "camera", cameraInterval)
                    ELSE intervals
          IN  IF isScreenActive THEN ClearInterval(i1, "screen", screenInterval)
              ELSE i1
    /\ IF ws # 0
       THEN /\ sockets' = [sockets EXCEPT
                   ![ws].onclose = FALSE,
                   ![ws].readyState = IF @ \in {"CONNECTING", "OPEN"}
                                      THEN "CLOSING" ELSE @]
            /\ ws' = 0
       ELSE UNCHANGED <<sockets, ws>>
    /\ UNCHANGED connectionStatus
    /\ userDisconnected' = TRUE
    /\ lastStep' = "disconnect"
    /\ UNCHANGED <<timers, wallClock, audioRecorderNode, awaitingPlayer, awaitingRecorder,
                   awaitingCamera, awaitingScreen>>
    /\ UNCHANGED <<convVars, playVars, schedVars, capVars>>

\* Click on disconnectBtn: disconnect(), with the stopCamera() and stopScreen()
\* it calls.
Disconnect ==
    /\ streams' =
          LET s1 == IF isMicActive THEN StopTracks(streams, micStream) ELSE streams
              s2 == IF isCameraActive THEN StopTracks(s1, cameraStream) ELSE s1
          IN  IF isScreenActive THEN StopTracks(s2, screenStream) ELSE s2
    /\ micStream' = IF isMicActive THEN 0 ELSE micStream
    /\ isMicActive' = FALSE
    /\ cameraInterval' = IF isCameraActive THEN FALSE ELSE cameraInterval
    /\ cameraStream' = IF isCameraActive THEN 0 ELSE cameraStream
    /\ isCameraActive' = FALSE
    /\ screenInterval' = IF isScreenActive THEN FALSE ELSE screenInterval
    /\ screenStream' = IF isScreenActive THEN 0 ELSE screenStream
    /\ isScreenActive' = FALSE
    /\ intervals' =
          LET i1 == IF isCameraActive
                    THEN ClearInterval(intervals, "camera", cameraInterval)
                    ELSE intervals
          IN  IF isScreenActive THEN ClearInterval(i1, "screen", screenInterval)
              ELSE i1
    /\ IF ws # 0
       THEN /\ sockets' = [sockets EXCEPT
                   ![ws].onclose = FALSE,
                   ![ws].readyState = IF @ \in {"CONNECTING", "OPEN"}
                                      THEN "CLOSING" ELSE @]
            /\ ws' = 0
       ELSE UNCHANGED <<sockets, ws>>
    /\ connectionStatus' = "disconnected"
    /\ userDisconnected' = TRUE
    /\ lastStep' = "disconnect"
    /\ UNCHANGED <<timers, wallClock, audioRecorderNode, awaitingPlayer, awaitingRecorder,
                   awaitingCamera, awaitingScreen>>
    /\ UNCHANGED <<convVars, playVars, schedVars, capVars>>

\* White space, as String.prototype.trim takes it off both ends.
IsSpace(c) == c \in {" ", "\n"}

RECURSIVE TrimStart(_)
TrimStart(v) == IF v # <<>> /\ IsSpace(Head(v)) THEN TrimStart(Tail(v)) ELSE v

RECURSIVE TrimEnd(_)
TrimEnd(v) ==
    IF v # <<>> /\ IsSpace(v[Len(v)]) THEN TrimEnd(SubSeq(v, 1, Len(v) - 1)) ELSE v

\* textInput.value.trim()
Trim(v) == TrimEnd(TrimStart(v))

\* JSON.stringify({ type: "text", text })
TextMessage(text) == [type |-> "text", text |-> text]

\* What the user may have typed: nothing, white space only, and texts with and
\* without white space around and inside them.
TextInputs ==
    {<<>>, <<" ">>, <<"\n", " ">>, <<"h", "i">>, <<" ", "h", "i", "\n">>,
     <<"h", " ", "i">>}

\* The user edits the text field.
TypeText(v) ==
    /\ textInput # v
    /\ textInput' = v
    /\ lastStep' = "input"
    /\ UNCHANGED <<messages, currentAgentMessageEl, currentAgentText,
                   currentInputTranscription, currentOutputTranscription,
                   transcriptLines, inventoryCount, lastEvent, jsonSent>>
    /\ UNCHANGED <<playVars, connVars, devVars, schedVars, capVars>>

\* Mutant of SubmitText: the test is `!text || !ws`, without the readyState.  A
\* send on a socket that is not open delivers nothing.
SubmitTextAnyState ==
    /\ Len(messages) < MaxMessages
    /\ LET text == Trim(textInput)
       IN  IF text = <<>> \/ ws = 0
           THEN /\ lastStep' = "submitIgnored"
                /\ UNCHANGED <<messages, jsonSent, textInput>>
           ELSE /\ messages' = AddMessage(CurrentState, "user", text).messages
                /\ jsonSent' = IF WsOpen THEN Append(jsonSent, TextMessage(text))
                               ELSE jsonSent
                /\ textInput' = <<>>
                /\ lastStep' = "submit"
    /\ UNCHANGED <<currentAgentMessageEl, currentAgentText, currentInputTranscription,
                   currentOutputTranscription, transcriptLines, inventoryCount,
                   lastEvent>>
    /\ UNCHANGED <<playVars, connVars, devVars, schedVars, capVars>>

\* Submit of textForm: the handler of lines 846-854.
SubmitText ==
    /\ Len(messages) < MaxMessages
    /\ LET text == Trim(textInput)
       IN  IF text = <<>> \/ ~WsOpen
           THEN /\ lastStep' = "submitIgnored"
                /\ UNCHANGED <<messages, jsonSent, textInput>>
           ELSE /\ messages' = AddMessage(CurrentState, "user", text).messages
                /\ jsonSent' = Append(jsonSent, TextMessage(text))
                /\ textInput' = <<>>
                /\ lastStep' = "submit"
    /\ UNCHANGED <<currentAgentMessageEl, currentAgentText, currentInputTranscription,
                   currentOutputTranscription, transcriptLines, inventoryCount,
                   lastEvent>>
    /\ UNCHANGED <<playVars, connVars, devVars, schedVars, capVars>>

\* The text form while the connection opens, closes, is replaced and is given up.
TextNext ==
    \/ \E v \in TextInputs : TypeText(v)
    \/ SubmitText
    \/ WallTick
    \/ \E i \in 1..MaxSockets : SocketOpens(i)
    \/ \E i \in 1..MaxSockets : \E withError \in BOOLEAN : SocketCloses(i, withError)
    \/ \E k \in 1..MaxSockets : TimerFires(k)
    \/ Disconnect

ConnNext ==
    \/ WallTick
    \/ \E i \in 1..MaxSockets : SocketOpens(i)
    \/ \E i \in 1..MaxSockets : \E withError \in BOOLEAN : SocketCloses(i, withError)
    \/ \E k \in 1..MaxSockets : TimerFires(k)
    \/ Disconnect
    \/ ToggleMicrophone
    \/ PlayerWorkletResolves
    \/ PlayerWorkletRejects
    \/ RecorderResolves
    \/ \E acquired \in BOOLEAN : RecorderRejects(acquired)

\* Click on cameraBtn: toggleCamera() with the stopCamera() / stopScreen() it
\* calls, up to the await of getUserMedia in startCamera().
ToggleCamera ==
    /\ IF isCameraActive
       THEN /\ streams' = StopTracks(streams, cameraStream)
            /\ intervals' = ClearInterval(intervals, "camera", cameraInterval)
            /\ cameraInterval' = FALSE
            /\ cameraStream' = 0
            /\ isCameraActive' = FALSE
            /\ UNCHANGED <<isScreenActive, screenStream, screenInterval, awaitingCamera>>
       ELSE /\ awaitingCamera + awaitingScreen < MaxPending
            /\ streams' = IF isScreenActive THEN StopTracks(streams, screenStream)
                          ELSE streams
            /\ intervals' = IF isScreenActive
                             THEN ClearInterval(intervals, "screen", screenInterval)
                             ELSE intervals
            /\ screenInterval' = IF isScreenActive THEN FALSE ELSE screenInterval
            /\ screenStream' = IF isScreenActive THEN 0 ELSE screenStream
            /\ isScreenActive' = FALSE
            /\ awaitingCamera' = awaitingCamera + 1
            /\ UNCHANGED <<isCameraActive, cameraStream, cameraInterval>>
    /\ lastStep' = "toggleCamera"
    /\ UNCHANGED <<micVars, awaitingScreen>>
    /\ UNCHANGED <<convVars, playVars, connVars, schedVars, capVars>>

\* getUserMedia resolves in startCamera(): the rest of its try block runs.
CameraResolves ==
    /\ awaitingCamera > 0
    /\ Len(streams) < MaxStreams
    /\ streams' = Append(streams, NewStream("camera"))
    /\ cameraStream' = Len(streams) + 1
    /\ isCameraActive' = TRUE
    /\ cameraInterval' = TRUE
    /\ intervals' = SetInterval(intervals, "camera")
    /\ awaitingCamera' = awaitingCamera - 1
    /\ lastStep' = "cameraResolved"
    /\ UNCHANGED <<micVars, isScreenActive, screenStream, screenInterval, awaitingScreen>>
    /\ UNCHANGED <<convVars, playVars, connVars, schedVars, capVars>>

\* getUserMedia rejects in startCamera(): the catch block logs the error.
CameraRejects ==
    /\ awaitingCamera > 0
    /\ awaitingCamera' = awaitingCamera - 1
    /\ lastStep' = "cameraRejected"
    /\ UNCHANGED <<micVars, streams, isCameraActive, cameraStream, cameraInterval,
                   isScreenActive, screenStream, screenInterval, awaitingScreen,
                   intervals>>
    /\ UNCHANGED <<convVars, playVars, connVars, schedVars, capVars>>

\* Click on screenBtn: toggleScreen() with the stopScreen() / stopCamera() it
\* calls, up to the await of getDisplayMedia in startScreen().
ToggleScreen ==
    /\ IF isScreenActive
       THEN /\ streams' = StopTracks(streams, screenStream)
            /\ intervals' = ClearInterval(intervals, "screen", screenInterval)
            /\ screenInterval' = FALSE
            /\ screenStream' = 0
            /\ isScreenActive' = FALSE
            /\ UNCHANGED <<isCameraActive, cameraStream, cameraInterval, awaitingScreen>>
       ELSE /\ awaitingCamera + awaitingScreen < MaxPending
            /\ streams' = IF isCameraActive THEN StopTracks(streams, cameraStream)
                          ELSE streams
            /\ intervals' = IF isCameraActive
                             THEN ClearInterval(intervals, "camera", cameraInterval)
                             ELSE intervals
            /\ cameraInterval' = IF isCameraActive THEN FALSE ELSE cameraInterval
            /\ cameraStream' = IF isCameraActive THEN 0 ELSE cameraStream
            /\ isCameraActive' = FALSE
            /\ awaitingScreen' = awaitingScreen + 1
            /\ UNCHANGED <<isScreenActive, screenStream, screenInterval>>
    /\ lastStep' = "toggleScreen"
    /\ UNCHANGED <<micVars, awaitingCamera>>
    /\ UNCHANGED <<convVars, playVars, connVars, schedVars, capVars>>

\* getDisplayMedia resolves in startScreen(): the rest of its try block runs.
ScreenResolves ==
    /\ awaitingScreen > 0
    /\ Len(streams) < MaxStreams
    /\ streams' = Append(streams, NewStream("screen"))
    /\ screenStream' = Len(streams) + 1
    /\ isScreenActive' = TRUE
    /\ screenInterval' = TRUE
    /\ intervals' = SetInterval(intervals, "screen")
    /\ awaitingScreen' = awaitingScreen - 1
    /\ lastStep' = "screenResolved"
    /\ UNCHANGED <<micVars, isCameraActive, cameraStream, cameraInterval, awaitingCamera>>
    /\ UNCHANGED <<convVars, playVars, connVars, schedVars, capVars>>

\* getDisplayMedia rejects in startScreen(): the catch block logs the error.
ScreenRejects ==
    /\ awaitingScreen > 0
    /\ awaitingScreen' = awaitingScreen - 1
    /\ lastStep' = "screenRejected"
    /\ UNCHANGED <<micVars, streams, isCameraActive, cameraStream, cameraInterval,
                   isScreenActive, screenStream, screenInterval, awaitingCamera,
                   intervals>>
    /\ UNCHANGED <<convVars, playVars, connVars, schedVars, capVars>>

\* The user ends the sharing of screen stream i in the browser's own UI: its
\* track ends and the "ended" listener startScreen() attached calls stopScreen().
ScreenTrackEnded(i) ==
    /\ i \in 1..Len(streams)
    /\ streams[i].kind = "screen"
    /\ streams[i].live
    /\ streams' = StopTracks([streams EXCEPT ![i].live = FALSE], screenStream)
    /\ intervals' = ClearInterval(intervals, "screen", screenInterval)
    /\ screenInterval' = FALSE
    /\ screenStream' = 0
    /\ isScreenActive' = FALSE
    /\ lastStep' = "screenEnded"
    /\ UNCHANGED <<micVars, isCameraActive, cameraStream, cameraInterval,
                   awaitingCamera, awaitingScreen>>
    /\ UNCHANGED <<convVars, playVars, connVars, schedVars, capVars>>

\* JSON.stringify({ type: "image", mimeType: "image/jpeg", data }); source is
\* the callback that sent it.
ImageMessage(kind) == [type |-> "image", source |-> kind]

\* The stream variable a capture callback tests: cameraStream in
\* captureAndSendFrame, screenStream in captureAndSendScreenFrame.
StreamHeld(kind) == IF kind = "camera" THEN cameraStream # 0 ELSE screenStream # 0

\* Timer i of setInterval runs out once more: captureAndSendFrame or
\* captureAndSendScreenFrame.
IntervalFires(i) ==
    /\ i \in 1..Len(intervals)
    /\ intervals[i].running
    /\ Len(jsonSent) < MaxImages
    /\ jsonSent' = IF StreamHeld(intervals[i].kind) /\ WsOpen
                   THEN Append(jsonSent, ImageMessage(intervals[i].kind))
                   ELSE jsonSent
    /\ lastStep' = "capture"
    /\ UNCHANGED <<messages, currentAgentMessageEl, currentAgentText,
                   currentInputTranscription, currentOutputTranscription,
                   transcriptLines, inventoryCount, lastEvent, textInput>>
    /\ UNCHANGED <<playVars, connVars, devVars, schedVars, capVars>>

\* Camera and screen share with their capture intervals, while the socket
\* opens, closes and is given up.
VideoNext ==
    \/ \E i \in 1..MaxSockets : SocketOpens(i)
    \/ \E i \in 1..MaxSockets : \E withError \in BOOLEAN : SocketCloses(i, withError)
    \/ Disconnect
    \/ ToggleCamera
    \/ CameraResolves
    \/ CameraRejects
    \/ ToggleScreen
    \/ ScreenResolves
    \/ ScreenRejects
    \/ \E i \in 1..MaxStreams : ScreenTrackEnded(i)
    \/ \E i \in 1..MaxStreams : IntervalFires(i)

DevNext ==
    \/ \E i \in 1..MaxSockets : SocketOpens(i)
    \/ \E i \in 1..MaxSockets : \E withError \in BOOLEAN : SocketCloses(i, withError)
    \/ Disconnect
    \/ ToggleMicrophone
    \/ PlayerWorkletResolves
    \/ PlayerWorkletRejects
    \/ RecorderResolves
    \/ \E acquired \in BOOLEAN : RecorderRejects(acquired)
    \/ ToggleCamera
    \/ CameraResolves
    \/ CameraRejects
    \/ ToggleScreen
    \/ ScreenResolves
    \/ ScreenRejects
    \/ \E i \in 1..MaxStreams : ScreenTrackEnded(i)

\* Float samples a microphone frame is made of: 0, the two ends of the range,
\* values beyond them, values in between down to fractions of a quantization
\* step, and NaN.
FloatSamples ==
    {Float(0, 0), Float(1, 0), Float(-1, 0), Float(2, 0), Float(-2, 0),
     Float(3, 1), Float(-3, 1), Float(1, 1), Float(-1, 1), Float(3, 2), Float(-3, 2),
     Float(1, 15), Float(-1, 15), Float(32767, 15), Float(-32767, 15),
     Float(1, 16), Float(-1, 16), Float(3, 16), Float(-3, 16), NaN}

\* The frames process() is given: no frame, one sample, or two samples.
MicFrames ==
    {<<>>} \cup {<<x>> : x \in FloatSamples}
    \cup {<<Float(1, 1), Float(-1, 1)>>, <<Float(2, 0), Float(-2, 0)>>,
          <<NaN, Float(1, 0)>>}

\* The inputs argument of process(): no input, an input without channel, or one
\* input with one channel.
MicInputs == {<<>>, <<<<>>>>} \cup {<<<<frame>>>> : frame \in MicFrames}

\* Mutant of RecorderProcess: the first channel is read without the tests of
\* line 59.  inputs[0][0] of no inputs raises TypeError; of an input without
\* channel it is undefined, and new Float32Array(undefined) is an empty frame.
RecorderProcessUnguarded(inputs) ==
    /\ audioRecorderNode # 0
    /\ Len(recorderPort) + Len(wsSent) < MaxFrames
    /\ IF Len(inputs) = 0
       THEN /\ lastStep' = "recorderProcessThrew"
            /\ UNCHANGED recorderPort
       ELSE /\ lastStep' = "recorderProcess"
            /\ recorderPort' = Append(recorderPort,
                   IF Len(inputs[1]) > 0 THEN inputs[1][1] ELSE <<>>)
    /\ UNCHANGED <<pcmData, float32Data, int16Data, wsSent, nativeRate, nativeBuffer>>
    /\ UNCHANGED <<convVars, playVars, connVars, devVars, schedVars>>

\* PCMProcessor.process(inputs): posts a copy of the first channel of the first
\* input, if there is one.
RecorderProcess(inputs) ==
    /\ audioRecorderNode # 0
    /\ Len(recorderPort) + Len(wsSent) < MaxFrames
    /\ recorderPort' = IF Len(inputs) > 0 /\ Len(inputs[1]) > 0
                       THEN Append(recorderPort, inputs[1][1])
                       ELSE recorderPort
    /\ lastStep' = "recorderProcess"
    /\ UNCHANGED <<pcmData, float32Data, int16Data, wsSent, nativeRate, nativeBuffer>>
    /\ UNCHANGED <<convVars, playVars, connVars, devVars, schedVars>>

\* Mutant of RecorderOnMessage: the frame is sent whatever the socket's state.
RecorderOnMessageAlwaysSends ==
    /\ recorderPort # <<>>
    /\ float32Data' = Head(recorderPort)
    /\ int16Data' = ConvertFloat32ToPCM(Head(recorderPort))
    /\ recorderPort' = Tail(recorderPort)
    /\ wsSent' = Append(wsSent, int16Data')
    /\ lastStep' = "recorderMessage"
    /\ UNCHANGED <<pcmData, nativeRate, nativeBuffer>>
    /\ UNCHANGED <<convVars, playVars, connVars, devVars, schedVars>>

\* recorderNode.port.onmessage with the audioRecorderHandler toggleMicrophone
\* passed: convert the frame and send it if the socket is open.
RecorderOnMessage ==
    /\ recorderPort # <<>>
    /\ float32Data' = Head(recorderPort)
    /\ int16Data' = ConvertFloat32ToPCM(Head(recorderPort))
    /\ recorderPort' = Tail(recorderPort)
    /\ wsSent' = IF WsOpen THEN Append(wsSent, int16Data') ELSE wsSent
    /\ lastStep' = "recorderMessage"
    /\ UNCHANGED <<pcmData, nativeRate, nativeBuffer>>
    /\ UNCHANGED <<convVars, playVars, connVars, devVars, schedVars>>

PcmNext ==
    \/ \E inputs \in MicInputs : RecorderProcess(inputs)
    \/ RecorderOnMessage

\* The divisors of the two playback conversions: playAudioChunk (32768.0) and
\* PCMPlayerProcessor._enqueue (0x7fff).
Divisors == {Int16Scale, Int16Max}

\* The float frame a playback conversion makes of pcmData is taken as a capture
\* frame, unchanged.
Loopback(divisor) ==
    /\ pcmData # <<>>
    /\ lastStep = "recorderResolved"
    /\ recorderPort' = <<[i \in 1..Len(pcmData) |-> ToFloat32(pcmData[i], divisor)]>>
    /\ lastStep' = IF divisor = Int16Scale THEN "playAudioChunk" ELSE "enqueue"
    /\ UNCHANGED <<pcmData, float32Data, int16Data, wsSent, nativeRate, nativeBuffer>>
    /\ UNCHANGED <<convVars, playVars, connVars, devVars, schedVars>>

\* The inputs of process() while the connection comes and goes: no input, or one
\* of three frames that convert to different PCM.
UpstreamInputs ==
    {<<>>, <<<<<<Float(1, 1)>>>>>>, <<<<<<Float(-1, 1)>>>>>>,
     <<<<<<Float(2, 0), Float(-2, 0)>>>>>>}

\* Microphone capture while sockets open, close and are replaced by reconnects.
UpstreamNext ==
    \/ \E inputs \in UpstreamInputs : RecorderProcess(inputs)
    \/ RecorderOnMessage
    \/ WallTick
    \/ \E i \in 1..MaxSockets : SocketOpens(i)
    \/ \E i \in 1..MaxSockets : \E withError \in BOOLEAN : SocketCloses(i, withError)
    \/ \E k \in 1..MaxSockets : TimerFires(k)

RoundTripNext ==
    \/ \E divisor \in Divisors : Loopback(divisor)
    \/ RecorderOnMessage

\* Device rates: the target rate, two integer multiples of it, and 44.1 kHz.
NativeRates == {16000, 32000, 44100, 48000}

\* Native samples: -0.75 and 0.75.
NativeSamples == {Float(-6, 3), Float(6, 3)}

RECURSIVE FramesOf(_)
\* The frames of exactly n native samples.
FramesOf(n) ==
    IF n = 0 THEN {<<>>}
    ELSE {Append(f, x) : f \in FramesOf(n - 1), x \in NativeSamples}

NativeFrames == UNION {FramesOf(n) : n \in 0..MaxNative}

\* onFrame(nativeBuffer): the frame is brought to the target rate, converted to
\* 16-bit PCM and sent upstream if the socket is open.
OnFrame(buffer) ==
    /\ audioRecorderNode # 0
    /\ Len(wsSent) < MaxFrames
    /\ nativeBuffer' = buffer
    /\ float32Data' = Downsample(buffer, nativeRate, TargetRate)
    /\ int16Data' = ConvertFloat32ToPCM(float32Data')
    /\ wsSent' = IF WsOpen THEN Append(wsSent, int16Data') ELSE wsSent
    /\ lastStep' = "onFrame"
    /\ UNCHANGED <<pcmData, recorderPort, nativeRate>>
    /\ UNCHANGED <<convVars, playVars, connVars, devVars, schedVars>>

CaptureNext == \E buffer \in NativeFrames : OnFrame(buffer)

\* Both modules as loaded: audio-player.js at its initialisers, app.js with the
\* connect() of its last line done.
AppLoaded ==
    SchedInit /\ ConvInit /\ PlayInit /\ ConnInit /\ DevInit /\ CapInit /\ lastStep = "load"

\* The same once ws.onopen has run.
AppConnected ==
    SchedInit /\ ConvInit /\ PlayInit /\ ConnOpened /\ DevInit /\ CapInit
    /\ lastStep = "open"

SpecSched == AppLoaded /\ [][SchedNext]_vars

SpecConv == AppConnected /\ [][ConvNext]_vars

\* The connected app after one click on micBtn whose awaits have resolved: a
\* player node exists and the microphone is on.
MicOnState ==
    /\ SchedInit /\ ConvInit /\ ConnOpened
    /\ audioPlayerNode = 1
    /\ players = <<NewPlayer>>
    /\ nextSample = 1
    /\ lastOutput = [node |-> 0, out |-> <<>>]
    /\ interruptMark = 0
    /\ interruptNode = 0
    /\ isMicActive = TRUE /\ micStream = 1 /\ audioRecorderNode = 1
    /\ streams = <<[kind |-> "mic", live |-> TRUE, connected |-> TRUE]>>
    /\ isCameraActive = FALSE /\ cameraStream = 0 /\ cameraInterval = FALSE
    /\ isScreenActive = FALSE /\ screenStream = 0 /\ screenInterval = FALSE
    /\ intervals = <<>>
    /\ awaitingPlayer = 0 /\ awaitingRecorder = 0
    /\ awaitingCamera = 0 /\ awaitingScreen = 0
    /\ lastStep = "recorderResolved"

AppMicOn == MicOnState /\ CapInit

SpecPlay == AppMicOn /\ [][PlayNext]_vars

SpecConn == AppLoaded /\ [][ConnNext]_vars

SpecDev == AppLoaded /\ [][DevNext]_vars

SpecPcm == AppMicOn /\ [][PcmNext]_vars

\* Every 16-bit sample value.
Int16Values == (-Int16Scale)..Int16Max

\* The app with the microphone on and one 16-bit sample to decode.
AppWithPcm ==
    /\ MicOnState
    /\ pcmData \in {<<q>> : q \in Int16Values}
    /\ recorderPort = <<>>
    /\ float32Data = <<>>
    /\ int16Data = <<>>
    /\ wsSent = <<>>
    /\ nativeRate = TargetRate
    /\ nativeBuffer = <<>>

SpecRoundTrip == AppWithPcm /\ [][RoundTripNext]_vars

\* The app with the microphone on, on a device of any of the native rates.
AppCapturing == MicOnState /\ NoFrames /\ nativeRate \in NativeRates

SpecCapture == AppCapturing /\ [][CaptureNext]_vars

SpecUpstream == AppMicOn /\ [][UpstreamNext]_vars

\* Inline audio of n samples, none included, in a message of its own.
ChunkEvent(n) ==
    Event(<<AudioPart(n)>>, FALSE, FALSE, FALSE, NoTranscription, NoTranscription)

\* An inbound message whose inline audio decodes to n samples arrives.
ReceiveChunk(n) ==
    /\ Fits(ChunkEvent(n))
    /\ \A p \in 1..Len(players) :
          Len(AfterEvent(CurrentState, ChunkEvent(n)).players[p].port) <= MaxPort
    /\ HandleServerEvent(ChunkEvent(n))

\* Chunks of any length, empty ones included, on both playback paths.
ChunkNext ==
    \/ Tick
    \/ \E len \in ChunkLens : PlayAudioChunk(len)
    \/ \E n \in 0..1 : ReceiveChunk(n)
    \/ \E p \in 1..MaxPlayers : PlayerOnMessage(p)
    \/ \E p \in 1..MaxPlayers : PlayerProcess(p)

SpecChunks == AppMicOn /\ [][ChunkNext]_vars

\* Inline audio arrives before, while and after clicks on micBtn bring up the
\* player and the recorder.
StartupNext ==
    \/ \E n \in 1..2 : ReceiveChunk(n)
    \/ ToggleMicrophone
    \/ PlayerWorkletResolves
    \/ PlayerWorkletRejects
    \/ RecorderResolves
    \/ \E acquired \in BOOLEAN : RecorderRejects(acquired)
    \/ \E p \in 1..MaxPlayers : PlayerOnMessage(p)
    \/ \E p \in 1..MaxPlayers : PlayerProcess(p)

SpecStartup == AppConnected /\ [][StartupNext]_vars

\* The streams stopMicrophone may be handed: any kind, live or already stopped.
StreamValues ==
    [kind : {"mic", "camera", "screen"}, live : BOOLEAN, connected : BOOLEAN]

\* The app as loaded, holding up to MaxStreams streams; micStream is the handle
\* stopMicrophone is called with, 0 for null.
AppWithStreams ==
    /\ SchedInit /\ ConvInit /\ PlayInit /\ ConnInit /\ CapInit
    /\ streams \in UNION {[1..n -> StreamValues] : n \in 0..MaxStreams}
    /\ micStream \in 0..Len(streams)
    /\ isMicActive = FALSE /\ audioRecorderNode = 0
    /\ isCameraActive = FALSE /\ cameraStream = 0 /\ cameraInterval = FALSE
    /\ isScreenActive = FALSE /\ screenStream = 0 /\ screenInterval = FALSE
    /\ intervals = <<>>
    /\ awaitingPlayer = 0 /\ awaitingRecorder = 0
    /\ awaitingCamera = 0 /\ awaitingScreen = 0
    /\ lastStep = "load"

\* stopMicrophone(micStream), called once more on the same handle.
StopMicrophone ==
    /\ streams' = StopTracks(streams, micStream)
    /\ lastStep' = IF lastStep = "load" THEN "stopMicrophone" ELSE "stopMicrophoneAgain"
    /\ UNCHANGED <<micVars, videoVars>>
    /\ UNCHANGED <<convVars, playVars, connVars, schedVars, capVars>>

StopNext == StopMicrophone

SpecStop == AppWithStreams /\ [][StopNext]_vars

SpecText == AppLoaded /\ [][TextNext]_vars

SpecVideo == AppLoaded /\ [][VideoNext]_vars

\* The last instant observed.
LastWallTime == CHOOSE t \in WallTimes : \A u \in WallTimes : u <= t

\* A connection ends while the run has room for the reconnect it sets off: a
\* socket left to create, and the timer's due time within the instants observed.
ClosesInTime(i, withError) ==
    /\ Len(sockets) + Len(timers) < MaxSockets
    /\ wallClock + ReconnectDelay <= LastWallTime
    /\ SocketCloses(i, withError)

\* The connection left to itself, the user doing nothing about it: the camera
\* may be switched on and off meanwhile.
ReconnectNext ==
    \/ WallTick
    \/ \E i \in 1..MaxSockets : SocketOpens(i)
    \/ \E i \in 1..MaxSockets : \E withError \in BOOLEAN : ClosesInTime(i, withError)
    \/ \E k \in 1..MaxSockets : TimerFires(k)
    \/ ToggleCamera
    \/ CameraResolves
    \/ CameraRejects

\* Time passes and a timer that is due fires; the server accepts a connection
\* that it does not refuse.
SpecReconnect ==
    /\ AppLoaded
    /\ [][ReconnectNext]_vars
    /\ WF_vars(WallTick)
    /\ WF_vars(\E k \in 1..MaxSockets : TimerFires(k))
    /\ WF_vars(\E i \in 1..MaxSockets : SocketOpens(i))

----------------------------------------------------------------------------
(* Claims about audio-player.js, checked under SpecSched *)

\* Consecutive buffer sources with no stopAudioPlayback between them.
SameStream(i) == sources[i].epoch = sources[i+1].epoch

\* C1: with no stopAudioPlayback in between, chunk i+1 starts exactly at the end
\* of chunk i when it arrives at or before that end, and exactly at its own
\* arrival time when chunk i had already played out (no overlap, no avoidable gap).
C1_GaplessSchedule ==
    \A i \in 1..(Len(sources) - 1) :
        SameStream(i) =>
            LET endOfPrev == sources[i].start + sources[i].dur
            IN  /\ sources[i+1].arrival <= endOfPrev => sources[i+1].start = endOfPrev
                /\ sources[i+1].arrival > endOfPrev =>
                       sources[i+1].start = sources[i+1].arrival

\* C1 witness: 100, 150, 80 ms arriving at 0, 50, 500 ms start at 0, 100, 500 ms.
C1_Witness ==
    /\ Len(sources) = 3
    /\ stopCount = 0
    /\ <<sources[1].dur, sources[2].dur, sources[3].dur>> = <<100, 150, 100>>
    /\ <<sources[1].arrival, sources[2].arrival, sources[3].arrival>> = <<0, 50, 500>>
    /\ <<sources[1].start, sources[2].start, sources[3].start>> = <<0, 100, 500>>

\* C6: when stopAudioPlayback returns, scheduledSources is empty and every source
\* that was in it has been stopped; a source whose stop() raised had already
\* played to its end, and it does not keep the others from being stopped.
C6_StopVoidsAll ==
    [][(stopCount' = stopCount + 1) =>
          /\ scheduledSources' = <<>>
          /\ \A id \in SeqToSet(scheduledSources) :
                sources'[id].stopped \/ Finished(sources[id])]_vars

\* C6 witness: a stop that returned having stopped the sounding source and a
\* later one, while the stop() of an already finished source had raised.
C6_Witness ==
    /\ lastOp = "stop"
    /\ scheduledSources = <<>>
    /\ \E a, b, c \in 1..Len(sources) :
          /\ sources[a].stopped /\ sources[a].start <= clock
          /\ clock < sources[a].start + sources[a].dur
          /\ sources[b].stopped /\ sources[b].start > clock
          /\ ~sources[c].stopped /\ ~sources[c].ended /\ Finished(sources[c])

\* C7: a chunk passed to playAudioChunk after a stopAudioPlayback made at clock
\* time t is scheduled to start at or after t.
C7_StartNotBeforeFlush ==
    \A id \in 1..Len(sources) :
        (stopCount >= 1 /\ sources[id].epoch = stopCount) =>
            sources[id].start >= lastStopTime

\* C7 witness: a chunk scheduled after a stop that happened later than time 0,
\* while audio scheduled before the stop reached beyond the stop time.
C7_Witness ==
    /\ lastStopTime > 0
    /\ \E id \in 1..Len(sources) :
          /\ sources[id].epoch = stopCount
          /\ stopCount >= 1
          /\ \E old \in 1..Len(sources) :
                /\ sources[old].epoch < stopCount
                /\ sources[old].start + sources[old].dur > lastStopTime

\* The first chunk scheduled after a stopAudioPlayback.
FirstAfterStop(id) ==
    /\ sources[id].epoch >= 1
    /\ id = 1 \/ sources[id - 1].epoch < sources[id].epoch

\* C8: the first playAudioChunk after any stopAudioPlayback, called with or
\* without an audioContext, starts exactly at the clock time of that playAudioChunk.
C8_FreshStreamAfterFlush ==
    \A id \in 1..Len(sources) :
        FirstAfterStop(id) => sources[id].start = sources[id].arrival

------------------------------------------------------------------------\* Source id was scheduled after the last flush and its onended has not fired.
Pending(id) == ~sources[id].ended /\ sources[id].epoch = stopCount

\* The onended of source id fires in the step.
EndsInStep(id) == ~sources[id].ended /\ sources'[id].ended

\* C32: scheduledSources holds, once each and in scheduling order, exactly the
\* sources scheduled and neither ended nor flushed; the onended of a source
\* removes that source and no other, so one that fires for a source a flush has
\* already removed leaves the list as it is.
C32_ListIsPending ==
    /\ [](/\ SeqToSet(scheduledSources) = {id \in 1..Len(sources) : Pending(id)}
          /\ \A i, j \in 1..Len(scheduledSources) :
                 i < j => scheduledSources[i] < scheduledSources[j])
    /\ [][\A id \in 1..Len(sources) :
             EndsInStep(id) =>
                 SeqToSet(scheduledSources') = SeqToSet(scheduledSources) \ {id}]_vars

\* C32 witness: the first source was flushed, a second was scheduled after
\* the flush, and then the onended of the first fired: the list holds the second.
C32_Witness ==
    /\ lastOp = "onended"
    /\ Len(sources) = 2
    /\ sources[1].epoch = 0 /\ sources[1].stopped /\ sources[1].ended
    /\ sources[2].epoch = 1 /\ ~sources[2].ended
    /\ scheduledSources = <<2>>

----
(* Claims about the conversation display of app.js, checked under SpecConv *)

\* The message handled last carried turn_complete or interrupted.
AtTurnBoundary ==
    /\ lastEvent.kind = "object"
    /\ lastEvent.turn_complete \/ lastEvent.interrupted

\* C2: after handleServerEvent has handled a message with turn_complete or
\* interrupted set, both transcription accumulators are empty.
C2_TranscriptionsClearedAtBoundary ==
    AtTurnBoundary =>
        /\ currentInputTranscription = ""
        /\ currentOutputTranscription = ""

\* C3: after handleServerEvent has handled a message with turn_complete or
\* interrupted set, no display accumulator is live, whatever else the message carries.
C3_IdleAtBoundary ==
    AtTurnBoundary =>
        /\ currentAgentMessageEl = 0
        /\ currentAgentText = ""

\* The text parts of a message that the handler takes as text deltas.
Deltas(parts) == SelectSeq(parts, LAMBDA part : Truthy(part.text))

\* The message handled last carried a text delta, no turn boundary and no
\* output transcription.
AfterTextDelta ==
    /\ lastEvent.kind = "object"
    /\ Deltas(lastEvent.parts) # <<>>
    /\ ~lastEvent.turn_complete /\ ~lastEvent.interrupted
    /\ ~(lastEvent.output_transcription.present
         /\ Truthy(lastEvent.output_transcription.text))

\* C4: within a turn the live agent message shows exactly the latest text delta,
\* whether the delta was flagged partial or not: a delta replaces the text shown.
C4_DeltaReplaces ==
    AfterTextDelta =>
        LET dn == Deltas(lastEvent.parts)[Len(Deltas(lastEvent.parts))].text
        IN  /\ currentAgentMessageEl # 0
            /\ messages[currentAgentMessageEl].text = dn
            /\ currentAgentText = dn

\* C4 witness: the partial deltas "Hello" and "Hello there" of one turn have been
\* handled and the one agent message shows "Hello there".
C4_Witness ==
    /\ AfterTextDelta
    /\ lastEvent.partial
    /\ lastEvent.parts = <<TextPart("Hello"), TextPart("Hello there")>>
    /\ messages = <<[role |-> "agent", text |-> "Hello there"]>>
    /\ currentAgentMessageEl = 1

\* The live agent message, if there is one, is an agent element of the message
\* list and shows currentAgentText.
LiveIsAgentMessage ==
    currentAgentMessageEl # 0 =>
        /\ currentAgentMessageEl \in 1..Len(messages)
        /\ messages[currentAgentMessageEl].role = "agent"
        /\ messages[currentAgentMessageEl].text = currentAgentText

\* The message handled in the step finalizes: it has turn_complete or
\* interrupted set.
FinalizesInStep ==
    /\ lastEvent'.kind = "object"
    /\ lastEvent'.turn_complete \/ lastEvent'.interrupted

\* Elements are only added; no element but the live one changes; with a live
\* element and no finalize in the step, no element is added and the live one
\* stays the live one; a live element is given up only by a finalize.
OneLiveTurn ==
    /\ Len(messages') >= Len(messages)
    /\ \A i \in 1..Len(messages) :
          i # currentAgentMessageEl => messages'[i] = messages[i]
    /\ \A i \in (Len(messages) + 1)..Len(messages') : messages'[i].role = "agent"
    /\ (currentAgentMessageEl # 0 /\ ~FinalizesInStep) =>
          /\ Len(messages') = Len(messages)
          /\ currentAgentMessageEl' = currentAgentMessageEl
    /\ (currentAgentMessageEl # 0 /\ currentAgentMessageEl' # currentAgentMessageEl) =>
          /\ FinalizesInStep
          /\ currentAgentMessageEl' \in {0} \cup ((Len(messages) + 1)..Len(messages'))
    /\ (currentAgentMessageEl = 0 /\ ~FinalizesInStep) =>
          Len(messages') <= Len(messages) + 1

\* C23: one conversation turn is live at a time: a new agent message element is
\* created only when none is live, at start or after turn_complete or interrupted
\* finalized the previous one, and while a turn is live every agent text update
\* goes to its element.
C23_OneLiveTurn == []LiveIsAgentMessage /\ [][OneLiveTurn]_vars

\* C23 witness: the first turn's message was finalized and the second turn's
\* message is live, showing the delta handled last.
C23_Witness ==
    /\ messages = <<[role |-> "agent", text |-> "Hello"],
                    [role |-> "agent", text |-> "Hello there"]>>
    /\ currentAgentMessageEl = 2
    /\ lastEvent.kind = "object"
    /\ lastEvent.parts = <<TextPart("Hello there")>>
    /\ ~lastEvent.turn_complete /\ ~lastEvent.interrupted

\* The transcription tr of a message is one the handler takes (its text is not
\* empty), with the given finished flag.
Taken(tr, finished) == tr.present /\ Truthy(tr.text) /\ tr.finished = finished

\* The message handled in the step carries nothing but transcription deltas with
\* finished = false.
OnlyOpenDeltas ==
    /\ lastEvent'.kind = "object"
    /\ lastEvent'.parts = <<>>
    /\ ~lastEvent'.turn_complete /\ ~lastEvent'.interrupted
    /\ \/ Taken(lastEvent'.input_transcription, FALSE)
       \/ Taken(lastEvent'.output_transcription, FALSE)
    /\ ~Taken(lastEvent'.input_transcription, TRUE)
    /\ ~Taken(lastEvent'.output_transcription, TRUE)

\* C24: a transcription delta with finished = false changes only the live
\* accumulator of its role: the live agent message and its text, the message
\* list, the finalized transcript lines and the other role's accumulator stay as
\* they were.
C24_OpenDeltaFrame ==
    [][OnlyOpenDeltas =>
          /\ UNCHANGED <<messages, currentAgentMessageEl, currentAgentText,
                         transcriptLines>>
          /\ ~Taken(lastEvent'.input_transcription, FALSE) =>
                 UNCHANGED currentInputTranscription
          /\ ~Taken(lastEvent'.output_transcription, FALSE) =>
                 UNCHANGED currentOutputTranscription]_vars

\* The transcript line a finished transcription of the role gives, if tr is one.
LineOf(role, tr) ==
    IF Taken(tr, TRUE) THEN <<[role |-> role, text |-> tr.text]>> ELSE <<>>

\* C25: a transcription delta with finished = true appends exactly one finalized
\* line with its role and text and leaves its role's accumulator empty; the
\* accumulator of a role for which the message has no transcription stays as it
\* was: clearing one never clears the other.
C25_FinishedDeltaFrame ==
    [][lastEvent'.kind = "object" =>
          LET inTr == lastEvent'.input_transcription
              outTr == lastEvent'.output_transcription
          IN  /\ transcriptLines' =
                     transcriptLines \o LineOf("user", inTr) \o LineOf("agent", outTr)
              /\ Taken(inTr, TRUE) => currentInputTranscription' = ""
              /\ Taken(outTr, TRUE) => currentOutputTranscription' = ""
              /\ ~(inTr.present /\ Truthy(inTr.text)) =>
                     UNCHANGED currentInputTranscription
              /\ ~(outTr.present /\ Truthy(outTr.text)) =>
                     UNCHANGED currentOutputTranscription]_vars

\* C25 witness: with the user's accumulator holding "hi", a finished agent
\* transcription was handled: one agent line, the agent accumulator empty, the
\* user's still "hi".
C25_Witness ==
    /\ lastEvent.kind = "object"
    /\ Taken(lastEvent.output_transcription, TRUE)
    /\ ~lastEvent.input_transcription.present
    /\ transcriptLines = <<[role |-> "agent", text |-> "hi"]>>
    /\ currentOutputTranscription = ""
    /\ currentInputTranscription = "hi"

\* C26: the agent's transcription is shown in the message stream only when it
\* is finished and only in a turn without text delta: an unfinished one leaves
\* the messages as they were, a transcription in a message that has a text delta
\* leaves the delta on display, and a user transcription adds or changes no
\* message.
C26_MirrorOnlyFinalTranscription ==
    [][(lastEvent'.kind = "object" /\ ~lastEvent'.turn_complete
        /\ ~lastEvent'.interrupted) =>
          LET ev == lastEvent'
              deltas == Deltas(ev.parts)
              agentTaken == ev.output_transcription.present
                            /\ Truthy(ev.output_transcription.text)
          IN  /\ (deltas = <<>> /\ Taken(ev.output_transcription, FALSE)) =>
                     UNCHANGED <<messages, currentAgentMessageEl, currentAgentText>>
              /\ (deltas # <<>> /\ agentTaken) =>
                     /\ currentAgentMessageEl' # 0
                     /\ messages'[currentAgentMessageEl'].text = deltas[Len(deltas)].text
              /\ (deltas = <<>> /\ ~agentTaken) =>
                     UNCHANGED <<messages, currentAgentMessageEl, currentAgentText>>]_vars

\* C14: an inbound text that is not a well-formed JSON object is dropped: the
\* handler does not raise and changes nothing of the conversation state (display
\* accumulator, transcription accumulators, message list, transcript, playback),
\* so the next message is handled as if the bad one had not arrived.
C14_BadMessageDropped ==
    [][lastEvent'.kind # "object" =>
          /\ lastStep' # "eventRaised"
          /\ UNCHANGED <<messages, currentAgentMessageEl, currentAgentText,
                         currentInputTranscription, currentOutputTranscription,
                         transcriptLines, inventoryCount, playVars>>]_vars

----------------------------------------------------------------------------
(* Claims about interruption and the worklet player, checked under SpecPlay *)

\* The player that was current at the latest interrupted message has taken every
\* endOfAudio posted to it.
FlushProcessed ==
    /\ interruptNode # 0
    /\ \A i \in 1..Len(players[interruptNode].port) :
          players[interruptNode].port[i].kind # "endOfAudio"

\* C5: once the player has processed the endOfAudio of an interrupted message, no
\* sample received before that message is left unread in it: right after the
\* endOfAudio readIndex equals writeIndex, and process() outputs only silence or
\* samples received after the message.
C5_InterruptFlushesPlayback ==
    FlushProcessed =>
        LET pl == players[interruptNode]
        IN  /\ \A i \in 1..Len(Unread(pl)) : Unread(pl)[i] > interruptMark
            /\ (lastStep = "endOfAudio" /\ lastOutput.node = interruptNode) =>
                   pl.readIndex = pl.writeIndex
            /\ (lastStep = "process" /\ lastOutput.node = interruptNode) =>
                   \A i \in 1..Len(lastOutput.out) :
                       lastOutput.out[i] = 0 \/ lastOutput.out[i] > interruptMark

\* C5 witness: samples were queued before an interrupted message and never played,
\* and after the endOfAudio process() gave a quantum of silence.
C5_Witness ==
    /\ FlushProcessed
    /\ players[interruptNode].played < interruptMark
    /\ lastStep = "process"
    /\ lastOutput = [node |-> interruptNode, out |-> [i \in 1..QuantumSize |-> 0]]
    /\ lastEvent.interrupted

\* C15: ws.onmessage routes by the kind of the message alone: a binary message
\* is never given to the JSON/conversation handler (it goes to playback as raw
\* PCM), and a text message given to the conversation handler is never played
\* as audio.
C15_RoutedByKind ==
    [][lastStep' \in {"event", "eventRaised"} =>
          /\ lastEvent'.kind # "binary"
          /\ nextSample' = nextSample]_vars

RECURSIVE PortSamples(_)
\* Number of samples in the audio messages of a port queue.
PortSamples(port) ==
    IF port = <<>> THEN 0 ELSE Len(Head(port).samples) + PortSamples(Tail(port))

\* Value of the sample written last by the _enqueue of the player that
\* audioPlayerNode has named since load: the samples received are numbered in
\* arrival order and all of them are posted to it.
LastWritten(pl) == nextSample - 1 - PortSamples(pl.port)

\* The unread contents of the player are the samples written last, in write
\* order, and at most bufferSize - 1 of them.
UnreadIsLatest ==
    \A p \in 1..Len(players) :
        LET u == Unread(players[p])
        IN  /\ Len(u) <= BufferSize - 1
            /\ \A i \in 1..Len(u) : u[i] = LastWritten(players[p]) - Len(u) + i

\* _enqueue of a chunk of n samples makes the unread contents n longer, or as
\* long as the buffer allows: every sample is taken, and each sample that does not
\* fit evicts one, the oldest.
EnqueueEvictsOldest ==
    lastStep' = "enqueue" =>
        LET p == lastOutput'.node
            n == Len(Head(players[p].port).samples)
            len == Len(Unread(players[p])) + n
        IN  Len(Unread(players'[p])) = IF len < BufferSize THEN len ELSE BufferSize - 1

\* C16: the ring buffer drops the oldest on overrun: _enqueue takes every sample,
\* a sample written into a full buffer evicts exactly the oldest unread one, and
\* the unread contents are always the most recently written samples, up to
\* capacity, in write order.
C16_DropOldest == []UnreadIsLatest /\ [][EnqueueEvictsOldest]_vars

\* C16 witness: two samples were enqueued into the full buffer with nothing played
\* and nothing flushed; the two oldest were evicted and the unread contents are
\* the two newest.
C16_Witness ==
    /\ lastStep = "enqueue"
    /\ Len(players) = 1
    /\ players[1].played = 0
    /\ interruptNode = 0
    /\ LastWritten(players[1]) = 4
    /\ Unread(players[1]) = <<3, 4>>

RECURSIVE PortAudio(_)
\* The samples of the audio messages of a port queue, oldest message first.
PortAudio(port) ==
    IF port = <<>> THEN <<>> ELSE Head(port).samples \o PortAudio(Tail(port))

\* A flush is asked for and not yet done.
FlushPosted(port) == \E i \in 1..Len(port) : port[i].kind = "endOfAudio"

\* The samples of an output quantum that are not silence.
NonSilent(out) == SelectSeq(out, LAMBDA v : v # 0)

\* The samples from number a to number b.
Numbered(a, b) == [i \in 1..(b - a + 1) |-> a + i - 1]

\* Every sample received and not yet output is waiting, in arrival order, in the
\* current player's buffer or in its port queue, and no flush is asked for.
NothingLost(pls, received) ==
    /\ audioPlayerNode # 0
    /\ LET pl == pls[audioPlayerNode]
       IN  /\ ~FlushPosted(pl.port)
           /\ Unread(pl) \o PortAudio(pl.port) = Numbered(pl.played + 1, received)

\* The step flushes, or asks for a flush.
FlushStep ==
    \/ lastStep' = "endOfAudio"
    \/ FlushPosted(players'[audioPlayerNode].port)

\* The step enqueues a chunk that does not fit beside the unread samples.
OverrunStep ==
    /\ lastStep' = "enqueue"
    /\ LET pl == players[lastOutput'.node]
       IN  Len(Unread(pl)) + Len(Head(pl.port).samples) >= BufferSize

\* A step without overrun and flush loses nothing, and a process() outputs the
\* samples that follow the last one output, in order, and silence after them.
PlaysNextInOrder ==
    (NothingLost(players, nextSample - 1) /\ ~FlushStep /\ ~OverrunStep) =>
        /\ NothingLost(players', nextSample' - 1)
        /\ lastStep' = "process" =>
              LET p == lastOutput'.node
                  out == lastOutput'.out
                  k == Len(NonSilent(out))
              IN  /\ NonSilent(out) = Numbered(players[p].played + 1, players'[p].played)
                  /\ \A i \in 1..Len(out) : (out[i] # 0) = (i <= k)

\* C20: downstream audio is played in arrival order: absent overrun and flush,
\* the non-silent samples process() outputs are the received chunks in the order
\* of their messages, none reordered, duplicated or skipped.
C20_PlayedInArrivalOrder ==
    NothingLost(players, nextSample - 1) /\ [][PlaysNextInOrder]_vars

\* C20 witness: of four samples received, process() has output the first two and
\* the other two wait in the port queue.
C20_Witness ==
    /\ lastStep = "process"
    /\ lastOutput = [node |-> 1, out |-> <<1, 2>>]
    /\ NothingLost(players, 4)
    /\ nextSample = 5
    /\ PortAudio(players[1].port) = <<3, 4>>

\* The flush empties the player: nothing enqueued before it is left to output,
\* and the buffer starts again at index 0.
FlushDiscards ==
    lastStep' = "endOfAudio" =>
        LET p == lastOutput'.node
        IN  /\ Unread(players'[p]) = <<>>
            /\ players'[p].readIndex = 0 /\ players'[p].writeIndex = 0
            /\ players'[p].played = players[p].played

\* process() outputs the oldest unread samples, as many as the quantum takes, and
\* nothing else but silence.
OutputsOldestUnread ==
    lastStep' = "process" =>
        LET p == lastOutput'.node
            u == Unread(players[p])
            k == IF Len(u) < QuantumSize THEN Len(u) ELSE QuantumSize
        IN  /\ NonSilent(lastOutput'.out) = SubSeq(u, 1, k)
            /\ Unread(players'[p]) = SubSeq(u, k + 1, Len(u))

\* The step enqueues a chunk in the player that has done every flush asked of it.
EnqueueAfterFlush ==
    /\ lastStep' = "enqueue"
    /\ FlushProcessed
    /\ lastOutput'.node = interruptNode

\* The unread samples of a buffer that held u and was given the chunk: all of
\* them, or the newest bufferSize - 1.
KeptOf(u, chunk) ==
    LET all == u \o chunk
        n == Len(all)
        k == IF n < BufferSize THEN n ELSE BufferSize - 1
    IN  SubSeq(all, n - k + 1, n)

\* C22 as claimed: a flush discards every sample enqueued before it and not yet
\* played, and every sample enqueued after the flush is output, in order.
C22_FlushRacesEnqueue ==
    [][/\ FlushDiscards
       /\ OutputsOldestUnread
       /\ EnqueueAfterFlush =>
              LET pl == players[interruptNode]
              IN  Unread(players'[interruptNode])
                      = Unread(pl) \o Head(pl.port).samples]_vars

\* C22 amended: a flush discards every sample enqueued before it and not yet
\* played, and the samples enqueued after the flush are output in order, but for
\* those that a later chunk evicts when the buffer overruns.
C22_FlushRacesEnqueueAmended ==
    [][/\ FlushDiscards
       /\ OutputsOldestUnread
       /\ EnqueueAfterFlush =>
              LET pl == players[interruptNode]
              IN  Unread(players'[interruptNode])
                      = KeptOf(Unread(pl), Head(pl.port).samples)]_vars

\* C22 witness: two samples were received before the interrupted message, its
\* flush is done, and process() has output the two samples enqueued after it.
C22_Witness ==
    /\ FlushProcessed
    /\ lastStep = "process"
    /\ interruptMark = 2
    /\ players[interruptNode].played = 4
    /\ lastOutput = [node |-> interruptNode, out |-> <<3, 4>>]

\* process() of player p ran in the step.
ProcessedBy(p) == lastStep' = "process" /\ lastOutput'.node = p

\* C39: readIndex and writeIndex of every player lie in 0..bufferSize-1 and
\* between 0 and bufferSize-1 samples are unread; a process() that finds the
\* buffer empty writes zero to every output sample and leaves readIndex.
C39_RingIndices ==
    /\ [](\A p \in 1..Len(players) :
             /\ players[p].readIndex \in 0..(BufferSize - 1)
             /\ players[p].writeIndex \in 0..(BufferSize - 1)
             /\ Len(Unread(players[p])) \in 0..(BufferSize - 1))
    /\ [][\A p \in 1..Len(players) :
             (ProcessedBy(p) /\ players[p].readIndex = players[p].writeIndex) =>
                 /\ lastOutput'.out = [i \in 1..QuantumSize |-> 0]
                 /\ players'[p].readIndex = players[p].readIndex]_vars

\* C39 witness: the player has output the third sample, its write position has
\* gone round to 0, and the process() that followed found the buffer empty.
C39_Witness ==
    /\ lastStep = "process"
    /\ lastOutput = [node |-> 1, out |-> <<0, 0>>]
    /\ players[1].played = 3
    /\ players[1].writeIndex = 0
    /\ players[1].readIndex = 0

\* Number of connect() calls, done or pending, that the close handler of socket i
\* scheduled.
ReconnectsOf(i) ==
    Cardinality({k \in 1..Len(timers) : timers[k].origin = i})
    + Cardinality({j \in 1..Len(sockets) : sockets[j].origin = i})

\* C9: every unexpected closure (onclose firing on a socket disconnect() did not
\* detach) schedules exactly one connect() 5000 ms later: the closed socket has
\* one reconnect, pending or done, none earlier than 5000 ms after the closure,
\* and a socket whose close handler has not run has none.
C9_OneReconnectPerClosure ==
    \A i \in 1..Len(sockets) :
        /\ sockets[i].reconnects = (IF sockets[i].closeHandled THEN 1 ELSE 0)
        /\ ReconnectsOf(i) = sockets[i].reconnects
        /\ \A k \in 1..Len(timers) :
              timers[k].origin = i => timers[k].due = sockets[i].closedAt + ReconnectDelay
        /\ \A j \in 1..Len(sockets) :
              sockets[j].origin = i =>
                  sockets[j].createdAt >= sockets[i].closedAt + ReconnectDelay

\* A second socket has closed unexpectedly, after an error, and the reconnect of
\* the first closure has been made.
C9_Witness ==
    /\ Len(sockets) >= 2
    /\ sockets[1].closeHandled
    /\ sockets[2].closeHandled
    /\ sockets[2].origin = 1
    /\ connectionStatus = "disconnected"
    /\ \E k \in 1..Len(timers) : timers[k].origin = 2

\* C10: once disconnect() has run, connect() is not called again and no socket
\* is created.
C10_NoConnectAfterDisconnect ==
    [][userDisconnected => Len(sockets') = Len(sockets)]_vars

------------------------------------------------------------------------\* The sockets that are connecting or open.
InFlight == {i \in 1..Len(sockets) : sockets[i].readyState \in {"CONNECTING", "OPEN"}}

\* C36: the sockets connecting or open and the pending reconnect timers are
\* together at most one.
C36_OneConnectionInFlight == Cardinality(InFlight) + Len(timers) <= 1

\* C36 witness: the third socket is open, made by the reconnect that followed
\* the closure of the second, itself made after the closure of the first.
C36_Witness ==
    /\ Len(sockets) = 3
    /\ sockets[1].readyState = "CLOSED"
    /\ sockets[2].readyState = "CLOSED" /\ sockets[2].origin = 1
    /\ sockets[3].readyState = "OPEN" /\ sockets[3].origin = 2
    /\ timers = <<>>

----
(* Claims about the capture devices of app.js, checked under SpecDev *)

\* Some MediaStream that was acquired still has a live track.
SomeStreamLive == \E i \in 1..Len(streams) : streams[i].live

\* The state of app.js after disconnect(): no stream referenced, no interval
\* set, no device flagged active, no socket.
DisconnectedState ==
    /\ micStream = 0 /\ cameraStream = 0 /\ screenStream = 0
    /\ ~cameraInterval /\ ~screenInterval
    /\ ~isMicActive /\ ~isCameraActive /\ ~isScreenActive
    /\ ws = 0

\* C11: when disconnect() returns, from whatever state it was called, no
\* microphone, camera or screen stream is held (every track stopped, the three
\* stream variables null), both intervals are cleared, the three flags are false
\* and ws is null.
C11_DisconnectReleasesAll ==
    lastStep = "disconnect" => (DisconnectedState /\ ~SomeStreamLive)

\* C12: in every reachable state in which the current socket is not open, no
\* microphone, camera or screen stream is active.
C12_NoStreamWithoutConnection ==
    ~WsOpen => ~SomeStreamLive

\* C13: no microphone, camera or screen stream is acquired in a state where ws
\* is null or the socket is not OPEN.
C13_AcquiredOnlyWhileConnected ==
    \A i \in 1..Len(streams) : streams[i].connected

----------------------------------------------------------------------------
(* Claims about PCM quantization, checked under SpecPcm and SpecRoundTrip *)

\* Sample x quantized to y as the claim describes it: y is a signed 16-bit
\* value; 1 and above give 32767, -1 and below -32768, 0 gives 0; in between, y
\* is x * 32767 (x > 0) or x * 32768 (x < 0) with its fraction cut off.
QuantizedAs(x, y) ==
    /\ y \in (-32768)..32767
    /\ ~x.nan =>
          /\ x.m >= 2^x.e => y = 32767
          /\ -x.m >= 2^x.e => y = -32768
          /\ x.m = 0 => y = 0
          /\ (0 < x.m /\ x.m < 2^x.e) =>
                 (y * 2^x.e <= x.m * 32767 /\ x.m * 32767 < (y + 1) * 2^x.e)
          /\ (x.m < 0 /\ -x.m < 2^x.e) =>
                 ((y - 1) * 2^x.e < x.m * 32768 /\ x.m * 32768 <= y * 2^x.e)

\* C17: convertFloat32ToPCM quantizes every sample of a frame into the signed
\* 16-bit range: clamped to [-1, 1], scaled by 32768 below zero and by 32767
\* otherwise, truncated toward zero.
C17_QuantizeInRange ==
    lastStep = "recorderMessage" =>
        /\ Len(int16Data) = Len(float32Data)
        /\ \A i \in 1..Len(float32Data) : QuantizedAs(float32Data[i], int16Data[i])

\* C17 witness: the frame (2.0, -2.0) has been converted to (32767, -32768).
C17_Witness ==
    /\ lastStep = "recorderMessage"
    /\ float32Data = <<Float(2, 0), Float(-2, 0)>>
    /\ int16Data = <<32767, -32768>>

\* C18: every 16-bit value q, made a float the way a playback path does (divided
\* by 32768 in playAudioChunk, by 32767 in the ring-buffer player) and quantized
\* by convertFloat32ToPCM, gives q again.
C18_QuantizeIdempotent ==
    (lastStep = "recorderMessage" /\ pcmData # <<>>) => int16Data = pcmData

------------------------------------------------------------------------\* The step is a run of recorderNode.port.onmessage on the oldest posted frame.
ConvertsFrame ==
    /\ lastStep' = "recorderMessage"
    /\ recorderPort # <<>>
    /\ recorderPort' = Tail(recorderPort)

\* The step is a call of process() that returned true.
ProcessReturned == lastStep' = "recorderProcess" /\ lastStep # "recorderProcess"

\* C31: the capture conversion keeps the frame length and nothing in it raises:
\* convertFloat32ToPCM gives as many 16-bit samples as the frame has, none for
\* an empty frame, and process() returns true for every shape of inputs, posting
\* at most one frame and none without an input or without a channel.
C31_CaptureKeepsLength ==
    /\ [](lastStep # "recorderProcessThrew")
    /\ [][/\ ConvertsFrame =>
                 /\ Len(int16Data') = Len(Head(recorderPort))
                 /\ float32Data' = Head(recorderPort)
          /\ ProcessReturned =>
                 \/ recorderPort' = recorderPort
                 \/ /\ Len(recorderPort') = Len(recorderPort) + 1
                    /\ SubSeq(recorderPort', 1, Len(recorderPort)) = recorderPort]_vars

\* C31 witness: process() was given an empty channel, posted the empty frame,
\* and its conversion went upstream as an empty frame; process() then ran
\* again and returned with nothing posted.
C31_Witness ==
    /\ lastStep = "recorderProcess"
    /\ recorderPort = <<>>
    /\ float32Data = <<>>
    /\ int16Data = <<>>
    /\ wsSent = << <<>> >>

----
(* Claims about the upstream microphone path, checked under SpecUpstream *)

\* What a step may do to the frames: post one behind the others, or handle the
\* oldest one, which then leaves the queue and goes out as the newest message if
\* the socket is open and nowhere if it is not; or nothing.
FramesInOrder ==
    \/ /\ wsSent' = wsSent
       /\ \/ recorderPort' = recorderPort
          \/ /\ recorderPort' # <<>>
             /\ recorderPort = SubSeq(recorderPort', 1, Len(recorderPort') - 1)
    \/ /\ recorderPort # <<>>
       /\ recorderPort' = Tail(recorderPort)
       /\ IF ws # 0 /\ sockets[ws].readyState = "OPEN"
          THEN wsSent' = Append(wsSent, ConvertFloat32ToPCM(Head(recorderPort)))
          ELSE wsSent' = wsSent

\* C21: upstream microphone frames are sent in capture order: the messages sent
\* are a subsequence, in order, of the frames that process() posted, each sent at
\* most once, and a frame is sent only if the socket is OPEN when it is handled
\* and is dropped otherwise.
C21_SentInCaptureOrder == [][FramesInOrder]_vars

\* C21 witness: the first socket has closed, a reconnect has opened a second one
\* and the frame handled last was sent on it.
C21_Witness ==
    /\ lastStep = "recorderMessage"
    /\ Len(sockets) = 2 /\ ws = 2
    /\ sockets[1].readyState = "CLOSED" /\ sockets[2].readyState = "OPEN"
    /\ float32Data = <<Float(-1, 1)>>
    /\ wsSent = <<<<-16384>>>>
    /\ recorderPort = <<>>

----------------------------------------------------------------------------
(* Claims about device acquisition failures and ownership, checked under SpecDev *)

\* The step is the end of a failed acquisition: startCamera or startScreen caught
\* the rejection, or toggleMicrophone ended with that of startAudioRecorderWorklet.
AcquisitionFailed == lastStep' \in {"cameraRejected", "screenRejected", "recorderRejected"}

\* C27: a failed device acquisition leaves the device as it was, inactive: the
\* active flags, the streams held and the capture intervals are unchanged, no
\* stream has been added, and the socket and the connection status are unchanged.
C27_FailedAcquisitionInactive ==
    [][AcquisitionFailed =>
          /\ UNCHANGED <<isMicActive, micStream, audioRecorderNode>>
          /\ UNCHANGED <<isCameraActive, cameraStream, cameraInterval>>
          /\ UNCHANGED <<isScreenActive, screenStream, screenInterval>>
          /\ UNCHANGED streams
          /\ UNCHANGED <<ws, sockets, connectionStatus>>]_vars

\* C29: the microphone is exclusively owned and always releasable: whatever the
\* interleaving of clicks on micBtn and pending acquisitions, a microphone stream
\* that was acquired is referenced by micStream until it is stopped: micStream
\* lets go of a stream only if the stream is stopped, so no second stream is made
\* active beside a live one.
C29_MicrophoneOwned ==
    [][(micStream # 0 /\ micStream' # micStream) => ~streams'[micStream].live]_vars

------------------------------------------------------------------------------------------------------------------------------------------------------------------------------------------------------------------------\* C35: camera and screen share exclude each other: isCameraActive and
\* isScreenActive are never both true, and cameraStream and screenStream are
\* never both held.
C35_CameraXorScreen ==
    /\ ~(isCameraActive /\ isScreenActive)
    /\ ~(cameraStream # 0 /\ screenStream # 0)

----
(* Claims about the text form, checked under SpecText *)

\* The submit handler of textForm ran in the step.
Submitted == lastStep' \in {"submit", "submitIgnored"} /\ lastStep' # lastStep

\* C34: a submit whose trimmed text is empty, or with ws null or not open,
\* sends nothing, adds no message and leaves the field; any other submit sends
\* one text message carrying the trimmed text, adds one user message with it
\* and empties the field.  Nothing else sends a text message or adds a user
\* message.
C34_SubmitSendsOnce ==
    [][/\ Submitted =>
             IF Trim(textInput) = <<>> \/ ws = 0 \/ sockets[ws].readyState # "OPEN"
             THEN UNCHANGED <<jsonSent, messages, textInput>>
             ELSE /\ jsonSent' = Append(jsonSent, [type |-> "text",
                                                   text |-> Trim(textInput)])
                  /\ messages' = Append(messages, [role |-> "user",
                                                   text |-> Trim(textInput)])
                  /\ textInput' = <<>>
       /\ ~Submitted => UNCHANGED <<jsonSent, messages>>]_vars

\* C34 witness: " hi\n" was submitted on the open socket and went out as "hi";
\* the socket then closed, "h i" was typed and its submit was ignored.
C34_Witness ==
    /\ lastStep = "submitIgnored"
    /\ textInput = <<"h", " ", "i">>
    /\ ~WsOpen
    /\ jsonSent = <<[type |-> "text", text |-> <<"h", "i">>]>>
    /\ messages = <<[role |-> "user", text |-> <<"h", "i">>]>>

----
(* Claims about stopMicrophone, checked under SpecStop *)

\* C33: stopMicrophone with no handle changes nothing; with a handle it leaves
\* that stream stopped and every other stream as it was, and a second call on
\* the same handle leaves the state the first call left.
C33_StopIdempotent ==
    [][/\ micStream = 0 => streams' = streams
       /\ micStream # 0 =>
             /\ ~streams'[micStream].live
             /\ \A i \in 1..Len(streams) :
                    i # micStream => streams'[i] = streams[i]
       /\ lastStep' = "stopMicrophoneAgain" => streams' = streams]_vars

\* C33 witness: stopMicrophone has been called twice on a microphone stream,
\* which is stopped, next to a camera stream that is still live.
C33_Witness ==
    /\ lastStep = "stopMicrophoneAgain"
    /\ micStream = 1
    /\ Len(streams) = 2
    /\ streams[1].kind = "mic" /\ ~streams[1].live
    /\ streams[2].kind = "camera" /\ streams[2].live

----------------------------------------------------------------------------
(* Claims about the snapshot images, checked under SpecVideo *)

\* An image message of the given source is sent in the step.
SendsImage(kind) ==
    /\ Len(jsonSent') = Len(jsonSent) + 1
    /\ jsonSent'[Len(jsonSent')] = [type |-> "image", source |-> kind]

\* C37: a capture callback sends an image only while the stream of its source
\* is held and ws is open, and no capture interval runs without the stream of
\* its source being held: stopCamera and stopScreen leave no interval of their
\* source behind.
C37_ImagesOnlyWhileActive ==
    /\ [](\A i \in 1..Len(intervals) :
             intervals[i].running =>
                 IF intervals[i].kind = "camera" THEN cameraStream # 0
                 ELSE screenStream # 0)
    /\ [][/\ SendsImage("camera") =>
                 cameraStream # 0 /\ ws # 0 /\ sockets[ws].readyState = "OPEN"
          /\ SendsImage("screen") =>
                 screenStream # 0 /\ ws # 0 /\ sockets[ws].readyState = "OPEN"]_vars

----
(* Claims about recovery of the connection, checked under SpecReconnect *)

\* Socket i was closed without the user asking for it: its close handler ran.
ClosedUnexpectedly(i) == i \in 1..Len(sockets) /\ sockets[i].closeHandled

\* connect() was called by the timer that the closure of socket i set.
ConnectCalledFor(i) == \E j \in 1..Len(sockets) : sockets[j].origin = i

\* The client is connected again: the current socket is open and the status
\* says connected.
Reconnected ==
    /\ ws # 0 /\ sockets[ws].readyState = "OPEN"
    /\ connectionStatus = "connected"

\* C28: an unexpected disconnect is always recovered: after every unexpected
\* closure connect() is eventually called again, and with a server that accepts
\* the client is eventually connected again, no user action needed.
C28_UnexpectedCloseRecovered ==
    \A i \in 1..MaxSockets :
        /\ ClosedUnexpectedly(i) ~> ConnectCalledFor(i)
        /\ ClosedUnexpectedly(i) ~> Reconnected

\* C28 witness: the first socket closed unexpectedly, the timer called connect()
\* and the socket it made is open.
C28_Witness ==
    /\ ClosedUnexpectedly(1)
    /\ Len(sockets) = 2
    /\ sockets[2].origin = 1
    /\ ws = 2
    /\ Reconnected

----------------------------------------------------------------------------------------------------------------------------------------------------
(* Claims about audio that arrives before the player, checked under SpecStartup *)

\* C40: a message with inline audio handled while audioPlayerNode is null
\* reaches no player, then or later, and a player is created only when
\* audioPlayerNode is null.
C40_EarlyAudioDiscarded ==
    [][/\ (lastStep' = "event" /\ audioPlayerNode = 0) => players' = players
       /\ Len(players') > Len(players) => audioPlayerNode = 0]_vars

----
(* Claims about empty chunks, checked under SpecChunks *)

\* playAudioChunk was called with an empty buffer in the step.
PlayedEmpty == lastOp' = "playThrew" /\ UNCHANGED <<appVars, clock>>

\* _enqueue was called with an empty array in the step.
EnqueuedEmpty ==
    /\ lastStep' = "enqueue"
    /\ lastOutput'.node \in 1..Len(players)
    /\ LET pl == players[lastOutput'.node]
       IN  /\ pl.port # <<>>
           /\ players'[lastOutput'.node].port = Tail(pl.port)
           /\ Head(pl.port).kind # "endOfAudio"
           /\ Head(pl.port).samples = <<>>

\* C30: an empty chunk is a no-op for the scheduler: playAudioChunk with an
\* empty buffer leaves nextStartTime and scheduledSources as they were and
\* schedules nothing (no source without duration exists), and _enqueue of an
\* empty array leaves readIndex, writeIndex and the buffer as they were.
C30_EmptyChunkNoOp ==
    /\ [](\A i \in 1..Len(sources) : sources[i].dur > 0)
    /\ [][/\ PlayedEmpty => UNCHANGED <<nextStartTime, scheduledSources, sources>>
          /\ EnqueuedEmpty =>
                 LET p == lastOutput'.node
                 IN  /\ players'[p].readIndex = players[p].readIndex
                     /\ players'[p].writeIndex = players[p].writeIndex
                     /\ players'[p].buffer = players[p].buffer]_vars

\* C30 witness: after a chunk of 2400 samples an empty one was given to
\* playAudioChunk, and the only array _enqueue was given is an empty one.
C30_Witness ==
    /\ lastOp = "playThrew"
    /\ nextStartTime = 100
    /\ scheduledSources = <<1>>
    /\ lastStep = "enqueue"
    /\ nextSample = 1
    /\ players[1].writeIndex = 0 /\ players[1].readIndex = 0

====
